---- MODULE Spec2Model ----
(***************************************************************************)
(* Task-management REST API (candidate-backend): the task mutation and     *)
(* change-log pipeline of internal/services, internal/handlers and the     *)
(* relational schema of migrations/.                                       *)
(*                                                                         *)
(* The store is the three tables tasks, comments and change_logs.  Every   *)
(* HTTP request is a short sequence of SQL statements; one step of the     *)
(* model is one statement together with the handler's local computation    *)
(* around it, so requests of several users interleave exactly at the       *)
(* round trips to the store.                                               *)
(*                                                                         *)
(* Representation.  A Go string whose characters the code inspects (task   *)
(* title, comment content) is a sequence of one-character strings; Str     *)
(* turns it into a TLA+ string where the code formats it into a message.   *)
(* A Go pointer field (to a string, a TaskStatus or a time.Time) is a      *)
(* sequence of length 0 (nil) or 1 (the value pointed at).  An error is    *)
(* its message,                                                            *)
(* "" standing for nil.  tasks.updated_at is a logical time; the            *)
(* created_at columns are not modelled, the SERIAL ids standing for their  *)
(* order; change_logs is kept in insertion order, the position of a row    *)
(* standing for its id.                                                    *)
(***************************************************************************)
EXTENDS Integers, Sequences, FiniteSets, TLC

VARIABLES tasks, comments, change_logs, seqs, reqs, resp, arrived, fmtIn, fmtOut, call,
          schema, boot

vars == <<tasks, comments, change_logs, seqs, reqs, resp, arrived, fmtIn, fmtOut, call,
          schema, boot>>
storeVars == <<tasks, comments, change_logs, seqs>>
migVars == <<schema, boot>>
fmtVars == <<fmtIn, fmtOut, call, migVars>>

(***************************************************************************)
(* Bounds of the model.                                                    *)
(***************************************************************************)
MaxReqs == 2
MaxFrags == 4
MaxStarts == 4

Reqs == 1..MaxReqs
Users == {1, 2}
TaskIds == {1, 2}
CommentIds == {1, 2}

(***************************************************************************)
(* models.TaskStatus and the HTTP status codes the handlers answer with.   *)
(***************************************************************************)
StatusToDo == "To Do"
StatusInProgress == "In Progress"
StatusDone == "Done"

StatusOK == 200
StatusCreated == 201
StatusBadRequest == 400
StatusForbidden == 403
StatusNotFound == 404
StatusInternalServerError == 500

ErrNoRows == "sql: no rows in result set"
ErrForeignKey == "pq: insert or update violates foreign key constraint"
ErrStore == "pq: store failure"

(***************************************************************************)
(* Strings.                                                                *)
(***************************************************************************)
Filled(n, c) == [i \in 1..n |-> c]

RECURSIVE Str(_)
Str(s) == IF s = <<>> THEN "" ELSE s[1] \o Str(Tail(s))

\* A string of the model is the sequence of its runes.  The printable ASCII
\* characters other than the grave accent, and the escapes \t, \n, \f, \r,
\* stand for themselves; every other rune is written by the name of its code
\* point in upper-case hexadecimal, four digits up to U+FFFF ("U+00A0") and
\* five or six above ("U+1F600").  Str writes such a rune by that name.
VerticalTab == "U+000B"
NextLine == "U+0085"
NoBreakSpace == "U+00A0"
EAcute == "U+00E9"
EmSpace == "U+2003"
IdeographicSpace == "U+3000"
GrinningFace == "U+1F600"

AsciiChars ==
    {"\t", "\n", "\f", "\r", " ", "!", "\"", "#", "$", "%", "&", "'", "(",
     ")", "*", "+", ",", "-", ".", "/", "0", "1", "2", "3", "4", "5", "6",
     "7", "8", "9", ":", ";", "<", "=", ">", "?", "@", "A", "B", "C", "D",
     "E", "F", "G", "H", "I", "J", "K", "L", "M", "N", "O", "P", "Q", "R",
     "S", "T", "U", "V", "W", "X", "Y", "Z", "[", "\\", "]", "^", "_",
     "a", "b", "c", "d", "e", "f", "g", "h", "i", "j", "k", "l", "m", "n",
     "o", "p", "q", "r", "s", "t", "u", "v", "w", "x", "y", "z", "{", "|",
     "}", "~"}

HexDigits == {"0", "1", "2", "3", "4", "5", "6", "7", "8", "9", "A", "B", "C", "D", "E", "F"}
LowHexDigits == {"0", "1", "2", "3", "4", "5", "6", "7"}

\* U+0000 to U+007F
OneByteNames == {"U+00" \o a \o b : a \in LowHexDigits, b \in HexDigits}

\* U+0080 to U+07FF
TwoByteNames ==
    {"U+0" \o a \o b \o c : a \in LowHexDigits, b \in HexDigits, c \in HexDigits}
        \ OneByteNames

\* U+0000 to U+FFFF
FourDigitNames ==
    {"U+" \o a \o b \o c \o d :
        a \in HexDigits, b \in HexDigits, c \in HexDigits, d \in HexDigits}

\* The runes of one byte, written as themselves or by name.
OneByteRunes == AsciiChars \cup OneByteNames

\* The runes of Unicode's White_Space property.
WhiteSpace ==
    {"\t", "\n", "\f", "\r", " ", "U+0009", "U+000A", VerticalTab, "U+000C", "U+000D",
     "U+0020", NextLine, NoBreakSpace, "U+1680", "U+2000", "U+2001", "U+2002", EmSpace,
     "U+2004", "U+2005", "U+2006", "U+2007", "U+2008", "U+2009", "U+200A", "U+2028",
     "U+2029", "U+202F", "U+205F", IdeographicSpace}

\* unicode.IsSpace
IsSpace(c) == c \in WhiteSpace

\* utf8.RuneLen: the bytes of the rune in the UTF-8 encoding of the string:
\* one up to U+007F, two up to U+07FF, three up to U+FFFF, four above.
RuneLen(c) ==
    IF c \in OneByteRunes THEN 1
    ELSE IF c \notin FourDigitNames THEN 4
    ELSE IF c \in TwoByteNames THEN 2
    ELSE 3

\* The bytes of the runes s[lo..hi], summed by halves.
RECURSIVE ByteSum(_, _, _)
ByteSum(s, lo, hi) ==
    IF lo > hi THEN 0
    ELSE IF lo = hi THEN RuneLen(s[lo])
    ELSE ByteSum(s, lo, (lo + hi) \div 2) + ByteSum(s, (lo + hi) \div 2 + 1, hi)

\* Go's len of a string: the number of its bytes.
ByteLen(s) == ByteSum(s, 1, Len(s))

\* The index of the first rune of s[lo..hi] that is not a space, 0 when all
\* are: the scan from the start of strings.TrimSpace, by halves.
RECURSIVE FirstVisible(_, _, _)
FirstVisible(s, lo, hi) ==
    IF lo > hi THEN 0
    ELSE IF lo = hi THEN (IF IsSpace(s[lo]) THEN 0 ELSE lo)
    ELSE LET mid == (lo + hi) \div 2
             left == FirstVisible(s, lo, mid)
         IN  IF left # 0 THEN left ELSE FirstVisible(s, mid + 1, hi)

\* The index of the last rune of s[lo..hi] that is not a space, 0 when all are:
\* the scan from the end.
RECURSIVE LastVisible(_, _, _)
LastVisible(s, lo, hi) ==
    IF lo > hi THEN 0
    ELSE IF lo = hi THEN (IF IsSpace(s[lo]) THEN 0 ELSE lo)
    ELSE LET mid == (lo + hi) \div 2
             right == LastVisible(s, mid + 1, hi)
         IN  IF right # 0 THEN right ELSE LastVisible(s, lo, mid)

TrimLeft(s) ==
    IF FirstVisible(s, 1, Len(s)) = 0 THEN <<>>
    ELSE SubSeq(s, FirstVisible(s, 1, Len(s)), Len(s))

TrimRight(s) == SubSeq(s, 1, LastVisible(s, 1, Len(s)))

TrimSpace(s) == TrimRight(TrimLeft(s))

MaxTitleLen == 500

(***************************************************************************)
(* validators.TaskValidator                                                *)
(***************************************************************************)
ValidateStatus(status) ==
    IF status \in {StatusToDo, StatusInProgress, StatusDone}
    THEN ""
    ELSE "invalid status: must be 'To Do', 'In Progress', or 'Done'"

ValidateCreateTask(req) ==
    IF TrimSpace(req.title) = <<>> THEN "title is required"
    ELSE IF ByteLen(req.title) > MaxTitleLen THEN "title must be less than 500 characters"
    ELSE IF req.status # "" THEN ValidateStatus(req.status)
    ELSE ""

ValidateUpdateTask_NoTitleTest(req) ==
    IF req.status # <<>> THEN ValidateStatus(req.status[1]) ELSE ""

ValidateUpdateTask(req) ==
    IF req.title # <<>> /\ TrimSpace(req.title[1]) = <<>> THEN "title cannot be empty"
    ELSE IF req.title # <<>> /\ ByteLen(req.title[1]) > MaxTitleLen
         THEN "title must be less than 500 characters"
    ELSE IF req.status # <<>> THEN ValidateStatus(req.status[1])
    ELSE ""

(***************************************************************************)
(* services.ChangeLogService                                               *)
(***************************************************************************)
RECURSIVE FormatLoop(_, _, _)
FormatLoop(changes, i, result) ==
    IF i < Len(changes)
    THEN FormatLoop(changes, i + 1, result \o ", " \o changes[i])
    ELSE result

FormatChangeDetails_NoOxfordComma(changes) ==
    IF Len(changes) = 0 THEN ""
    ELSE IF Len(changes) = 1 THEN changes[1]
    ELSE FormatLoop(changes, 2, changes[1]) \o " and " \o changes[Len(changes)]

FormatChangeDetails(changes) ==
    IF Len(changes) = 0 THEN ""
    ELSE IF Len(changes) = 1 THEN changes[1]
    ELSE IF Len(changes) = 2 THEN changes[1] \o " and " \o changes[2]
    ELSE FormatLoop(changes, 2, changes[1]) \o ", and " \o changes[Len(changes)]

\* INSERT INTO change_logs: the row references tasks(id), so the insert fails
\* when the task is gone; `fault` is a store failure of the statement itself.
CreateChangeLog(logs, ts, taskID, userID, action, details, fault) ==
    LET err == IF fault THEN ErrStore
               ELSE IF taskID \notin DOMAIN ts THEN ErrForeignKey
               ELSE ""
        row == [task_id |-> taskID, user_id |-> userID,
                action |-> action, details |-> details]
    IN  [err |-> err, logs |-> IF err = "" THEN Append(logs, row) ELSE logs]

(***************************************************************************)
(* The store: rows, foreign keys and ON DELETE CASCADE of the schema.      *)
(***************************************************************************)
Restrict(f, S) == [x \in S |-> f[x]]

\* CURRENT_TIMESTAMP of a statement that writes a task row.  Time is logical:
\* the statement is later than every write the table records.
CurrentTimestamp(ts) ==
    IF DOMAIN ts = {} THEN 1
    ELSE 1 + (CHOOSE m \in {ts[t].updated_at : t \in DOMAIN ts} :
                 \A t \in DOMAIN ts : ts[t].updated_at <= m)

DeleteTaskRow(ts, id) == Restrict(ts, DOMAIN ts \ {id})

CascadeComments_KeepsRows(cs, id) == cs

\* comments.task_id REFERENCES tasks(id) ON DELETE CASCADE
CascadeComments(cs, id) == Restrict(cs, {c \in DOMAIN cs : cs[c].task_id # id})

IsNotOfTask(row, id) == row.task_id # id

CascadeLogs_DropsAll(logs, id) == <<>>

\* change_logs.task_id REFERENCES tasks(id) ON DELETE CASCADE
CascadeLogs(logs, id) == SelectSeq(logs, LAMBDA row : IsNotOfTask(row, id))

(***************************************************************************)
(* Requests.  reqs holds the requests in flight, one per slot; resp is the  *)
(* request that answered in the last step (IdleReq if none did), with its  *)
(* status code and error body.  pc is the next step of the handler, issued *)
(* the statements the request has sent to the store so far, affected the   *)
(* number of rows its primary write touched (-1 before it is issued),      *)
(* logged the outcome of its change-log insert, rows the rows a read       *)
(* answers with; changes, title and task_id are the handler's local        *)
(* variables of the same names.                                            *)
(***************************************************************************)
IdleReq ==
    [pc |-> "idle", op |-> "none", user |-> 0, id |-> 0, body |-> [none |-> TRUE],
     code |-> 0, error |-> "", issued |-> <<>>, changes |-> <<>>, title |-> <<>>,
     task_id |-> 0, affected |-> -1, logged |-> "none", rows |-> <<>>]

\* call is the one call of a function or read handler that the specifications
\* of the pure functions make: its name, its arguments and, once called, its
\* result.  The request pipeline leaves it at NoCall.
NoCall == [fn |-> "none", args |-> <<>>, called |-> FALSE, out |-> <<>>]

NewCall(fn, args) == [NoCall EXCEPT !.fn = fn, !.args = args]

NewReq(op, user, id, body) ==
    [IdleReq EXCEPT !.op = op, !.user = user, !.id = id, !.body = body]

Issue(rec, stmt) == [rec EXCEPT !.issued = Append(@, stmt)]

Respond(rec, code, error) == [rec EXCEPT !.pc = "done", !.code = code, !.error = error]

\* A request arrives in the lowest free slot; at most MaxReqs requests arrive.
CanStart(r) ==
    /\ arrived < MaxReqs
    /\ reqs[r].pc = "idle"
    /\ \A q \in Reqs : q < r => reqs[q].pc # "idle"

\* The step of request r leaves it as rec: a request that has answered frees its
\* slot, and its record is the response of this step.
Put(r, rec) ==
    /\ reqs' = [reqs EXCEPT ![r] = IF rec.pc = "done" THEN IdleReq ELSE rec]
    /\ resp' = IF rec.pc = "done" THEN rec ELSE IdleReq
    /\ arrived' = IF reqs[r].pc = "idle" THEN arrived + 1 ELSE arrived

(***************************************************************************)
(* The request bodies the model sends.                                     *)
(***************************************************************************)
NoDate == <<>>
SomeDate == <<"2026-12-31T00:00:00Z">>

\* Valid bodies with and without the optional fields, and the bodies that fail
\* validation or binding.
CreateTaskRequests ==
    {[title |-> <<"A">>, description |-> "d", status |-> "", due_date |-> NoDate],
     [title |-> <<"A">>, description |-> "d", status |-> StatusInProgress,
      due_date |-> SomeDate]}
    \cup [title : {<<" ", IdeographicSpace>>, <<>>}, description : {"d"}, status : {""},
           due_date : {NoDate}]
    \cup [title : {<<"A">>}, description : {"d"}, status : {"Bogus"}, due_date : {NoDate}]

UpdateTaskBody(title, description, status, due_date) ==
    [title |-> title, description |-> description, status |-> status,
     due_date |-> due_date]

\* No field, each field alone, title with due date, all four fields, and the
\* bodies that fail validation: a blank title, a title of 126 runes of four
\* bytes each, and a status outside the enum.
UpdateTaskRequests ==
    {UpdateTaskBody(<<>>, <<>>, <<>>, NoDate),
     UpdateTaskBody(<< <<"B">> >>, <<>>, <<>>, NoDate),
     UpdateTaskBody(<<>>, <<"e">>, <<>>, NoDate),
     UpdateTaskBody(<<>>, <<>>, <<StatusDone>>, NoDate),
     UpdateTaskBody(<<>>, <<>>, <<>>, SomeDate),
     UpdateTaskBody(<< <<"B">> >>, <<>>, <<>>, SomeDate),
     UpdateTaskBody(<< <<"B">> >>, <<"e">>, <<StatusDone>>, SomeDate),
     UpdateTaskBody(<< <<" ">> >>, <<>>, <<>>, NoDate),
     UpdateTaskBody(<< Filled(MaxTitleLen \div 4 + 1, GrinningFace) >>, <<>>, <<>>, NoDate),
     UpdateTaskBody(<<>>, <<>>, <<"Bogus">>, NoDate)}

(***************************************************************************)
(* services.TaskService                                                    *)
(***************************************************************************)
CheckTaskOwnership_Conflated(ts, taskID, userID) ==
    IF taskID \notin DOMAIN ts \/ ts[taskID].creator_id # userID THEN "task not found"
    ELSE ""

CheckTaskOwnership(ts, taskID, userID) ==
    IF taskID \notin DOMAIN ts THEN "task not found"
    ELSE IF ts[taskID].creator_id # userID THEN "you can only modify your own tasks"
    ELSE ""

UpdateArgs_CountsTimestamp(req) ==
    (IF req.title # <<>> THEN <<"title">> ELSE <<>>)
    \o (IF req.description # <<>> THEN <<"description">> ELSE <<>>)
    \o (IF req.status # <<>> THEN <<"status">> ELSE <<>>)
    \o (IF req.due_date # <<>> THEN <<"due_date">> ELSE <<>>)
    \o <<"updated_at">>

\* The columns of the dynamic UPDATE statement, in the order they are appended.
UpdateArgs(req) ==
    (IF req.title # <<>> THEN <<"title">> ELSE <<>>)
    \o (IF req.description # <<>> THEN <<"description">> ELSE <<>>)
    \o (IF req.status # <<>> THEN <<"status">> ELSE <<>>)
    \o (IF req.due_date # <<>> THEN <<"due_date">> ELSE <<>>)

UpdateChanges_ShortWording(req) ==
    (IF req.title # <<>> THEN <<"title to '" \o Str(req.title[1]) \o "'">> ELSE <<>>)
    \o (IF req.status # <<>> THEN <<"status to '" \o req.status[1] \o "'">> ELSE <<>>)

UpdateChanges_NoDescription(req) ==
    (IF req.title # <<>> THEN <<"changed title to '" \o Str(req.title[1]) \o "'">> ELSE <<>>)
    \o (IF req.status # <<>> THEN <<"changed status to '" \o req.status[1] \o "'">> ELSE <<>>)

UpdateChanges(req) ==
    (IF req.title # <<>> THEN <<"changed title to '" \o Str(req.title[1]) \o "'">> ELSE <<>>)
    \o (IF req.description # <<>> THEN <<"updated description">> ELSE <<>>)
    \o (IF req.status # <<>> THEN <<"changed status to '" \o req.status[1] \o "'">> ELSE <<>>)

ApplyUpdate_ClearsAbsent(row, req, now) ==
    [row EXCEPT !.title = IF req.title # <<>> THEN req.title[1] ELSE @,
                !.description = IF req.description # <<>> THEN req.description[1] ELSE "",
                !.status = IF req.status # <<>> THEN req.status[1] ELSE @,
                !.due_date = req.due_date,
                !.updated_at = now]

ApplyUpdate_ResetsStatus(row, req, now) ==
    [row EXCEPT !.title = IF req.title # <<>> THEN req.title[1] ELSE @,
                !.description = IF req.description # <<>> THEN req.description[1] ELSE @,
                !.status = IF req.status # <<>> THEN req.status[1] ELSE StatusToDo,
                !.due_date = IF req.due_date # <<>> THEN req.due_date ELSE @,
                !.updated_at = now]

\* UPDATE tasks SET <present columns>, updated_at = CURRENT_TIMESTAMP
\* WHERE id = $n, applied to the row.
ApplyUpdate(row, req, now) ==
    [row EXCEPT !.title = IF req.title # <<>> THEN req.title[1] ELSE @,
                !.description = IF req.description # <<>> THEN req.description[1] ELSE @,
                !.status = IF req.status # <<>> THEN req.status[1] ELSE @,
                !.due_date = IF req.due_date # <<>> THEN req.due_date ELSE @,
                !.updated_at = now]

InsertTaskRow_IgnoresStatus(req, userID, now) ==
    [title |-> req.title, description |-> req.description,
     status |-> StatusToDo,
     creator_id |-> userID, due_date |-> req.due_date, archived |-> FALSE,
     updated_at |-> now]

\* INSERT INTO tasks (title, description, status, creator_id, due_date);
\* archived and updated_at take their column defaults.
InsertTaskRow(req, userID, now) ==
    [title |-> req.title, description |-> req.description,
     status |-> IF req.status = "" THEN StatusToDo ELSE req.status,
     creator_id |-> userID, due_date |-> req.due_date, archived |-> FALSE,
     updated_at |-> now]

DeleteOwnership_MissingIsForbidden(ts, taskID, userID) ==
    IF taskID \notin DOMAIN ts \/ ts[taskID].creator_id # userID
    THEN "you can only delete your own tasks"
    ELSE ""

\* SELECT creator_id, title FROM tasks WHERE id = $1, then the creator test.
DeleteOwnership(ts, taskID, userID) ==
    IF taskID \notin DOMAIN ts THEN ErrNoRows
    ELSE IF ts[taskID].creator_id # userID THEN "you can only delete your own tasks"
    ELSE ""

ArchiveOwnership_NoCreatorTest(ts, taskID, userID) ==
    IF taskID \notin DOMAIN ts THEN "task not found" ELSE ""

ArchiveOwnership(ts, taskID, userID) ==
    IF taskID \notin DOMAIN ts THEN "task not found"
    ELSE IF ts[taskID].creator_id # userID THEN "you can only archive your own tasks"
    ELSE ""

UnarchiveOwnership_NoCreatorTest(ts, taskID, userID) ==
    IF taskID \notin DOMAIN ts THEN "task not found" ELSE ""

UnarchiveOwnership(ts, taskID, userID) ==
    IF taskID \notin DOMAIN ts THEN "task not found"
    ELSE IF ts[taskID].creator_id # userID THEN "you can only unarchive your own tasks"
    ELSE ""

SetArchived_ResetsStatus(row, flag, now) ==
    [row EXCEPT !.archived = flag, !.status = StatusToDo, !.updated_at = now]

\* UPDATE tasks SET archived = flag, updated_at = CURRENT_TIMESTAMP
\* WHERE id = $1, applied to the row.
SetArchived(row, flag, now) == [row EXCEPT !.archived = flag, !.updated_at = now]

(***************************************************************************)
(* handlers.TaskHandler: how each handler maps a service error to a status *)
(***************************************************************************)
ErrBindTitle == "Key: 'Title' Error:Field validation for 'Title' failed on the 'required' tag"
ErrBindCreateContent ==
    "Key: 'CreateCommentRequest.Content' Error:Field validation for 'Content' failed on the 'required' tag"
ErrBindUpdateContent ==
    "Key: 'UpdateCommentRequest.Content' Error:Field validation for 'Content' failed on the 'required' tag"

UpdateTaskErrorStatus(err) ==
    IF err = "task not found" THEN StatusNotFound
    ELSE IF err = "you can only modify your own tasks" THEN StatusForbidden
    ELSE StatusBadRequest

DeleteTaskErrorStatus(err) ==
    IF err = ErrNoRows \/ err = "task not found" THEN StatusNotFound
    ELSE IF err = "you can only delete your own tasks" THEN StatusForbidden
    ELSE StatusInternalServerError

ArchiveTaskErrorStatus(err) ==
    IF err = "task not found" THEN StatusNotFound
    ELSE IF err = "you can only archive your own tasks" THEN StatusForbidden
    ELSE StatusInternalServerError

UnarchiveTaskErrorStatus(err) ==
    IF err = "task not found" THEN StatusNotFound
    ELSE IF err = "you can only unarchive your own tasks" THEN StatusForbidden
    ELSE StatusInternalServerError

RespondAfterLog_Propagates(code, logErr) ==
    IF logErr # "" THEN StatusInternalServerError ELSE code

\* The handlers discard the error of the change-log insert and answer with the
\* status of the primary operation.
RespondAfterLog(code, logErr) == code

\* The change-log insert of request r and what the request records of it.
LogResult(r, taskID, action, details, fault) ==
    CreateChangeLog(change_logs, tasks, taskID, reqs[r].user, action, details, fault)

Logged(rec, res) ==
    [Issue(rec, "INSERT change_logs") EXCEPT !.logged = IF res.err = "" THEN "ok" ELSE "failed"]

(***************************************************************************)
(* POST /api/tasks                                                         *)
(***************************************************************************)
\* The handler copies title, description and status into the service request.
ToCreateTaskRequest(req) ==
    [title |-> req.title, description |-> req.description,
     status |-> req.status, due_date |-> NoDate]

CreateTask_Insert(r) ==
    /\ CanStart(r)
    /\ \E u \in Users, req \in CreateTaskRequests :
        LET rec == NewReq("CreateTask", u, 0, req)
            createReq == ToCreateTaskRequest(req)
            verr == ValidateCreateTask(createReq)
            newID == seqs.tasks
        IN  IF req.title = <<>>
            THEN /\ Put(r, Respond(rec, StatusBadRequest, ErrBindTitle))
                 /\ UNCHANGED storeVars
            ELSE IF verr # ""
            THEN /\ Put(r, Respond(rec, StatusBadRequest, verr))
                 /\ UNCHANGED storeVars
            ELSE /\ tasks' = [x \in DOMAIN tasks \cup {newID} |->
                                IF x = newID THEN InsertTaskRow(createReq, u, CurrentTimestamp(tasks)) ELSE tasks[x]]
                 /\ seqs' = [seqs EXCEPT !.tasks = @ + 1]
                 /\ Put(r,
                        [Issue(rec, "INSERT tasks") EXCEPT
                            !.pc = "log", !.task_id = newID, !.affected = 1,
                            !.title = createReq.title])
                 /\ UNCHANGED <<comments, change_logs>>
    /\ UNCHANGED fmtVars

CreateTask_Log(r) ==
    /\ reqs[r].pc = "log" /\ reqs[r].op = "CreateTask"
    /\ \E fault \in BOOLEAN :
        LET res == LogResult(r, reqs[r].task_id, "created",
                             "Created task: " \o Str(reqs[r].title), fault)
        IN  /\ change_logs' = res.logs
            /\ Put(r,
                   Respond(Logged(reqs[r], res), RespondAfterLog(StatusCreated, res.err), ""))
    /\ UNCHANGED <<tasks, comments, seqs, fmtVars>>

(***************************************************************************)
(* PUT /api/tasks/:id                                                      *)
(***************************************************************************)
UpdateTask_Check(r) ==
    /\ CanStart(r)
    /\ \E req \in UpdateTaskRequests :
        LET verr == ValidateUpdateTask(req)
        IN  \E u \in Users, id \in TaskIds :
            LET rec == NewReq("UpdateTask", u, id, req)
                oerr == CheckTaskOwnership(tasks, id, u)
                sel == Issue(rec, "SELECT tasks")
            IN  Put(r,
                    IF verr # "" THEN Respond(rec, UpdateTaskErrorStatus(verr), verr)
                    ELSE IF oerr # "" THEN Respond(sel, UpdateTaskErrorStatus(oerr), oerr)
                    ELSE IF Len(UpdateArgs(req)) = 0
                         THEN Respond(sel, UpdateTaskErrorStatus("no fields to update"),
                                      "no fields to update")
                    ELSE [sel EXCEPT !.pc = "write"])
    /\ UNCHANGED <<storeVars, fmtVars>>

UpdateTask_Write(r) ==
    /\ reqs[r].pc = "write" /\ reqs[r].op = "UpdateTask"
    /\ LET rec == Issue(reqs[r], "UPDATE tasks")
           id == reqs[r].id
           changes == UpdateChanges(reqs[r].body)
       IN  IF id \notin DOMAIN tasks
           THEN /\ Put(r,
                       Respond([rec EXCEPT !.affected = 0],
                               UpdateTaskErrorStatus(ErrNoRows), ErrNoRows))
                /\ UNCHANGED tasks
           ELSE /\ tasks' = [tasks EXCEPT ![id] = ApplyUpdate(@, reqs[r].body, CurrentTimestamp(tasks))]
                /\ Put(r,
                       IF Len(changes) > 0
                       THEN [rec EXCEPT !.pc = "log", !.affected = 1,
                                        !.task_id = id, !.changes = changes]
                       ELSE Respond([rec EXCEPT !.affected = 1, !.task_id = id,
                                                !.changes = changes], StatusOK, ""))
    /\ UNCHANGED <<comments, change_logs, seqs, fmtVars>>

UpdateTask_Log(r) ==
    /\ reqs[r].pc = "log" /\ reqs[r].op = "UpdateTask"
    /\ \E fault \in BOOLEAN :
        LET res == LogResult(r, reqs[r].task_id, "updated",
                             FormatChangeDetails(reqs[r].changes), fault)
        IN  /\ change_logs' = res.logs
            /\ Put(r,
                   Respond(Logged(reqs[r], res), RespondAfterLog(StatusOK, res.err), ""))
    /\ UNCHANGED <<tasks, comments, seqs, fmtVars>>

(***************************************************************************)
(* DELETE /api/tasks/:id                                                   *)
(***************************************************************************)
DeleteTask_Check(r) ==
    /\ CanStart(r)
    /\ \E u \in Users, id \in TaskIds :
        LET rec == Issue(NewReq("DeleteTask", u, id, [none |-> TRUE]), "SELECT tasks")
            err == DeleteOwnership(tasks, id, u)
        IN  Put(r,
                IF err = ErrNoRows
                THEN Respond(rec, DeleteTaskErrorStatus(err), "Task not found")
                ELSE IF err # "" THEN Respond(rec, DeleteTaskErrorStatus(err), err)
                ELSE [rec EXCEPT !.pc = "write", !.title = tasks[id].title])
    /\ UNCHANGED <<storeVars, fmtVars>>

DeleteTask_Write(r) ==
    /\ reqs[r].pc = "write" /\ reqs[r].op = "DeleteTask"
    /\ LET id == reqs[r].id
       IN  /\ tasks' = DeleteTaskRow(tasks, id)
           /\ comments' = CascadeComments(comments, id)
           /\ change_logs' = CascadeLogs(change_logs, id)
           /\ Put(r,
                  [Issue(reqs[r], "DELETE tasks") EXCEPT
                      !.pc = "log", !.task_id = id,
                      !.affected = IF id \in DOMAIN tasks THEN 1 ELSE 0])
    /\ UNCHANGED <<seqs, fmtVars>>

DeleteTask_Log(r) ==
    /\ reqs[r].pc = "log" /\ reqs[r].op = "DeleteTask"
    /\ \E fault \in BOOLEAN :
        LET res == LogResult(r, reqs[r].task_id, "deleted",
                             "Deleted task: " \o Str(reqs[r].title), fault)
        IN  /\ change_logs' = res.logs
            /\ Put(r,
                   Respond(Logged(reqs[r], res), RespondAfterLog(StatusOK, res.err), ""))
    /\ UNCHANGED <<tasks, comments, seqs, fmtVars>>

(***************************************************************************)
(* POST /api/tasks/:id/archive and /unarchive                              *)
(***************************************************************************)
ArchiveTask_Check(r) ==
    /\ CanStart(r)
    /\ \E u \in Users, id \in TaskIds :
        LET rec == Issue(NewReq("ArchiveTask", u, id, [none |-> TRUE]), "SELECT tasks")
            err == ArchiveOwnership(tasks, id, u)
        IN  Put(r,
                IF err # "" THEN Respond(rec, ArchiveTaskErrorStatus(err), err)
                ELSE [rec EXCEPT !.pc = "write", !.title = tasks[id].title])
    /\ UNCHANGED <<storeVars, fmtVars>>

ArchiveTask_Write(r) ==
    /\ reqs[r].pc = "write" /\ reqs[r].op = "ArchiveTask"
    /\ LET rec == Issue(reqs[r], "UPDATE tasks")
           id == reqs[r].id
       IN  IF id \notin DOMAIN tasks
           THEN /\ Put(r,
                       Respond([rec EXCEPT !.affected = 0],
                               ArchiveTaskErrorStatus(ErrNoRows), ErrNoRows))
                /\ UNCHANGED tasks
           ELSE /\ tasks' = [tasks EXCEPT ![id] = SetArchived(@, TRUE, CurrentTimestamp(tasks))]
                /\ Put(r,
                       [rec EXCEPT !.pc = "log", !.affected = 1, !.task_id = id])
    /\ UNCHANGED <<comments, change_logs, seqs, fmtVars>>

ArchiveTask_Log(r) ==
    /\ reqs[r].pc = "log" /\ reqs[r].op = "ArchiveTask"
    /\ \E fault \in BOOLEAN :
        LET res == LogResult(r, reqs[r].task_id, "archived",
                             "Archived task: " \o Str(reqs[r].title), fault)
        IN  /\ change_logs' = res.logs
            /\ Put(r,
                   Respond(Logged(reqs[r], res), RespondAfterLog(StatusOK, res.err), ""))
    /\ UNCHANGED <<tasks, comments, seqs, fmtVars>>

UnarchiveTask_Check(r) ==
    /\ CanStart(r)
    /\ \E u \in Users, id \in TaskIds :
        LET rec == Issue(NewReq("UnarchiveTask", u, id, [none |-> TRUE]), "SELECT tasks")
            err == UnarchiveOwnership(tasks, id, u)
        IN  Put(r,
                IF err # "" THEN Respond(rec, UnarchiveTaskErrorStatus(err), err)
                ELSE [rec EXCEPT !.pc = "write", !.title = tasks[id].title])
    /\ UNCHANGED <<storeVars, fmtVars>>

UnarchiveTask_Write(r) ==
    /\ reqs[r].pc = "write" /\ reqs[r].op = "UnarchiveTask"
    /\ LET rec == Issue(reqs[r], "UPDATE tasks")
           id == reqs[r].id
       IN  IF id \notin DOMAIN tasks
           THEN /\ Put(r,
                       Respond([rec EXCEPT !.affected = 0],
                               UnarchiveTaskErrorStatus(ErrNoRows), ErrNoRows))
                /\ UNCHANGED tasks
           ELSE /\ tasks' = [tasks EXCEPT ![id] = SetArchived(@, FALSE, CurrentTimestamp(tasks))]
                /\ Put(r,
                       [rec EXCEPT !.pc = "log", !.affected = 1, !.task_id = id])
    /\ UNCHANGED <<comments, change_logs, seqs, fmtVars>>

UnarchiveTask_Log(r) ==
    /\ reqs[r].pc = "log" /\ reqs[r].op = "UnarchiveTask"
    /\ \E fault \in BOOLEAN :
        LET res == LogResult(r, reqs[r].task_id, "unarchived",
                             "Restored task: " \o Str(reqs[r].title), fault)
        IN  /\ change_logs' = res.logs
            /\ Put(r,
                   Respond(Logged(reqs[r], res), RespondAfterLog(StatusOK, res.err), ""))
    /\ UNCHANGED <<tasks, comments, seqs, fmtVars>>

(***************************************************************************)
(* validators.CommentValidator                                             *)
(***************************************************************************)
MaxContentLen == 5000

ValidateCreateComment(req) ==
    IF TrimSpace(req.content) = <<>> THEN "comment content is required"
    ELSE IF ByteLen(req.content) > MaxContentLen THEN "comment must be less than 5000 characters"
    ELSE ""

ValidateUpdateComment(req) ==
    IF TrimSpace(req.content) = <<>> THEN "comment content is required"
    ELSE IF ByteLen(req.content) > MaxContentLen THEN "comment must be less than 5000 characters"
    ELSE ""

(***************************************************************************)
(* handlers.CommentHandler                                                 *)
(***************************************************************************)
CommentRequests == [content : {<<"c">>, <<" ">>, <<>>}]

CommentOwnership_NoAuthorTest(cs, commentID, userID) ==
    IF commentID \notin DOMAIN cs THEN StatusNotFound ELSE StatusOK

\* SELECT ... FROM comments WHERE id = $1, then the author test.
CommentOwnership(cs, commentID, userID) ==
    IF commentID \notin DOMAIN cs THEN StatusNotFound
    ELSE IF cs[commentID].user_id # userID THEN StatusForbidden
    ELSE StatusOK

CommentOwnershipError(code, verb) ==
    IF code = StatusNotFound THEN "Comment not found"
    ELSE "You can only " \o verb \o " your own comments"

CreateComment_Check(r) ==
    /\ CanStart(r)
    /\ \E u \in Users, id \in TaskIds, req \in CommentRequests :
        LET rec == Issue(NewReq("CreateComment", u, id, req), "SELECT tasks")
        IN  Put(r,
                IF id \notin DOMAIN tasks THEN Respond(rec, StatusNotFound, "Task not found")
                ELSE IF req.content = <<>> THEN Respond(rec, StatusBadRequest, ErrBindCreateContent)
                ELSE [rec EXCEPT !.pc = "write"])
    /\ UNCHANGED <<storeVars, fmtVars>>

CreateComment_Write(r) ==
    /\ reqs[r].pc = "write" /\ reqs[r].op = "CreateComment"
    /\ LET rec == Issue(reqs[r], "INSERT comments")
           id == reqs[r].id
           newID == seqs.comments
           row == [task_id |-> id, user_id |-> reqs[r].user, content |-> reqs[r].body.content]
       IN  /\ seqs' = [seqs EXCEPT !.comments = @ + 1]
           /\ IF id \notin DOMAIN tasks
              THEN /\ Put(r,
                          Respond([rec EXCEPT !.affected = 0],
                                  StatusInternalServerError, "Failed to create comment"))
                   /\ UNCHANGED comments
              ELSE /\ comments' = [x \in DOMAIN comments \cup {newID} |->
                                     IF x = newID THEN row ELSE comments[x]]
                   /\ Put(r,
                          [rec EXCEPT !.pc = "log", !.affected = 1, !.task_id = id])
    /\ UNCHANGED <<tasks, change_logs, fmtVars>>

CreateComment_Log(r) ==
    /\ reqs[r].pc = "log" /\ reqs[r].op = "CreateComment"
    /\ \E fault \in BOOLEAN :
        LET res == LogResult(r, reqs[r].task_id, "commented", "Added a comment", fault)
        IN  /\ change_logs' = res.logs
            /\ Put(r,
                   Respond(Logged(reqs[r], res), RespondAfterLog(StatusCreated, res.err), ""))
    /\ UNCHANGED <<tasks, comments, seqs, fmtVars>>

UpdateComment_Check(r) ==
    /\ CanStart(r)
    /\ \E u \in Users, id \in CommentIds, req \in CommentRequests :
        LET rec == Issue(NewReq("UpdateComment", u, id, req), "SELECT comments")
            own == CommentOwnership(comments, id, u)
        IN  Put(r,
                IF own # StatusOK THEN Respond(rec, own, CommentOwnershipError(own, "update"))
                ELSE IF req.content = <<>> THEN Respond(rec, StatusBadRequest, ErrBindUpdateContent)
                ELSE [rec EXCEPT !.pc = "write", !.task_id = comments[id].task_id])
    /\ UNCHANGED <<storeVars, fmtVars>>

UpdateComment_Write(r) ==
    /\ reqs[r].pc = "write" /\ reqs[r].op = "UpdateComment"
    /\ LET rec == Issue(reqs[r], "UPDATE comments")
           id == reqs[r].id
       IN  IF id \notin DOMAIN comments
           THEN /\ Put(r,
                       Respond([rec EXCEPT !.affected = 0],
                               StatusInternalServerError, "Failed to update comment"))
                /\ UNCHANGED comments
           ELSE /\ comments' = [comments EXCEPT ![id].content = reqs[r].body.content]
                /\ Put(r,
                       [rec EXCEPT !.pc = "log", !.affected = 1,
                                   !.task_id = comments[id].task_id])
    /\ UNCHANGED <<tasks, change_logs, seqs, fmtVars>>

UpdateComment_Log(r) ==
    /\ reqs[r].pc = "log" /\ reqs[r].op = "UpdateComment"
    /\ \E fault \in BOOLEAN :
        LET res == LogResult(r, reqs[r].task_id, "updated_comment", "Updated a comment", fault)
        IN  /\ change_logs' = res.logs
            /\ Put(r,
                   Respond(Logged(reqs[r], res), RespondAfterLog(StatusOK, res.err), ""))
    /\ UNCHANGED <<tasks, comments, seqs, fmtVars>>

DeleteComment_Check(r) ==
    /\ CanStart(r)
    /\ \E u \in Users, id \in CommentIds :
        LET rec == Issue(NewReq("DeleteComment", u, id, [none |-> TRUE]), "SELECT comments")
            own == CommentOwnership(comments, id, u)
        IN  Put(r,
                IF own # StatusOK THEN Respond(rec, own, CommentOwnershipError(own, "delete"))
                ELSE [rec EXCEPT !.pc = "log", !.task_id = comments[id].task_id])
    /\ UNCHANGED <<storeVars, fmtVars>>

\* "Log before deletion": the insert precedes the DELETE of the comment.
DeleteComment_Log(r) ==
    /\ reqs[r].pc = "log" /\ reqs[r].op = "DeleteComment"
    /\ \E fault \in BOOLEAN :
        LET res == LogResult(r, reqs[r].task_id, "deleted_comment", "Deleted a comment", fault)
        IN  /\ change_logs' = res.logs
            /\ Put(r, [Logged(reqs[r], res) EXCEPT !.pc = "write"])
    /\ UNCHANGED <<tasks, comments, seqs, fmtVars>>

\* DELETE FROM comments WHERE id = $1; `fault` is a store failure of the
\* statement, which the handler answers with 500, the log entry being written.
DeleteComment_Write(r) ==
    /\ reqs[r].pc = "write" /\ reqs[r].op = "DeleteComment"
    /\ \E fault \in BOOLEAN :
        LET id == reqs[r].id
            rec == Issue(reqs[r], "DELETE comments")
        IN  IF fault
            THEN /\ Put(r, Respond(rec, StatusInternalServerError, "Failed to delete comment"))
                 /\ UNCHANGED comments
            ELSE /\ comments' = Restrict(comments, DOMAIN comments \ {id})
                 /\ Put(r,
                        Respond([rec EXCEPT !.affected = IF id \in DOMAIN comments THEN 1 ELSE 0],
                                StatusOK, ""))
    /\ UNCHANGED <<tasks, change_logs, seqs, fmtVars>>

(***************************************************************************)
(* The read handlers.  A handler of one statement is a function of the     *)
(* store: the status code and the rows of the response.  The comment       *)
(* listing issues two statements and is a request of two steps.            *)
(***************************************************************************)
\* The positive integers of S in ascending order.
Ascending(S) ==
    IF S = {} THEN <<>>
    ELSE LET greatest == CHOOSE x \in S : \A y \in S : y <= x
         IN  SelectSeq([i \in 1..greatest |-> i], LAMBDA i : i \in S)

Reverse(s) == [i \in 1..Len(s) |-> s[Len(s) + 1 - i]]

IsOfTask(row, id) == row.task_id = id

\* GET /api/tasks/:id
GetTask(ts, id) ==
    IF id \notin DOMAIN ts
    THEN [code |-> StatusNotFound, rows |-> <<>>]
    ELSE [code |-> StatusOK, rows |-> <<ts[id]>>]

\* SELECT ... FROM comments c WHERE c.task_id = $1 ORDER BY c.created_at ASC:
\* the comments of the task in the order of their creation.
SelectComments(cs, id) ==
    LET ids == Ascending({c \in DOMAIN cs : cs[c].task_id = id})
    IN  [i \in 1..Len(ids) |-> cs[ids[i]]]

\* GET /api/tasks/:id/comments: SELECT EXISTS(SELECT 1 FROM tasks WHERE id = $1)
GetComments_Check(r) ==
    /\ CanStart(r)
    /\ \E u \in Users, id \in TaskIds :
        LET rec == Issue(NewReq("GetComments", u, id, [none |-> TRUE]), "SELECT tasks")
        IN  Put(r,
                IF id \notin DOMAIN tasks THEN Respond(rec, StatusNotFound, "Task not found")
                ELSE [rec EXCEPT !.pc = "read"])
    /\ UNCHANGED <<storeVars, fmtVars>>

\* The second statement of the listing, on the store as it is by then.
GetComments_Select(r) ==
    /\ reqs[r].pc = "read" /\ reqs[r].op = "GetComments"
    /\ Put(r,
           Respond([Issue(reqs[r], "SELECT comments") EXCEPT
                       !.rows = SelectComments(comments, reqs[r].id)],
                   StatusOK, ""))
    /\ UNCHANGED <<storeVars, fmtVars>>

\* GET /api/tasks/:id/logs: no existence check, newest entry first.
GetTaskLogs(logs, id) ==
    [code |-> StatusOK,
     rows |-> Reverse(SelectSeq(logs, LAMBDA row : IsOfTask(row, id)))]

(***************************************************************************)
(* The two listings.  A query parameter is the text of the URL; the rows   *)
(* of a page are task ids in the order of the statement's ORDER BY.        *)
(***************************************************************************)
DefaultLimit == 10
MaxLimit == 100

ValidatePagination_NoUpperLimit(limit, offset) ==
    IF limit < 1 THEN "limit must be between 1 and 100"
    ELSE IF offset < 0 THEN "offset must be >= 0"
    ELSE ""

ValidatePagination(limit, offset) ==
    IF limit < 1 \/ limit > MaxLimit THEN "limit must be between 1 and 100"
    ELSE IF offset < 0 THEN "offset must be >= 0"
    ELSE ""

Digits == {"0", "1", "2", "3", "4", "5", "6", "7", "8", "9"}

DigitValue(c) ==
    CASE c = "0" -> 0 [] c = "1" -> 1 [] c = "2" -> 2 [] c = "3" -> 3 [] c = "4" -> 4
      [] c = "5" -> 5 [] c = "6" -> 6 [] c = "7" -> 7 [] c = "8" -> 8 [] c = "9" -> 9

RECURSIVE Magnitude(_, _)
Magnitude(s, acc) ==
    IF s = <<>> THEN acc ELSE Magnitude(Tail(s), acc * 10 + DigitValue(s[1]))

RECURSIVE TrimZeros(_)
TrimZeros(s) == IF Len(s) > 1 /\ s[1] = "0" THEN TrimZeros(Tail(s)) ELSE s

\* The decimal digits of 1<<63 - 1 and of 1<<63, the largest magnitudes of a
\* positive and of a negative int.
MaxIntDigits ==
    <<"9", "2", "2", "3", "3", "7", "2", "0", "3", "6", "8", "5", "4", "7", "7", "5",
      "8", "0", "7">>
MinIntDigits ==
    <<"9", "2", "2", "3", "3", "7", "2", "0", "3", "6", "8", "5", "4", "7", "7", "5",
      "8", "0", "8">>

\* The number written a is greater than the number written b (no leading zeros).
GreaterDigits(a, b) ==
    \/ Len(a) > Len(b)
    \/ /\ Len(a) = Len(b)
       /\ \E i \in 1..Len(a) :
             /\ DigitValue(a[i]) > DigitValue(b[i])
             /\ \A j \in 1..(i - 1) : a[j] = b[j]

\* strconv.Atoi: an optional sign and at least one digit, nothing else; a
\* number that does not fit an int is an error (value out of range).
Atoi(s) ==
    LET signed == s # <<>> /\ s[1] \in {"+", "-"}
        negative == signed /\ s[1] = "-"
        digits == IF signed THEN Tail(s) ELSE s
        ok == digits # <<>> /\ \A i \in 1..Len(digits) : digits[i] \in Digits
    IN  IF ~ok THEN [ok |-> FALSE, n |-> 0]
        ELSE IF GreaterDigits(TrimZeros(digits),
                              IF negative THEN MinIntDigits ELSE MaxIntDigits)
        THEN [ok |-> FALSE, n |-> 0]
        ELSE [ok |-> TRUE,
              n |-> IF negative THEN 0 - Magnitude(digits, 0) ELSE Magnitude(digits, 0)]

\* The handlers keep the default when the parameter is absent, not a number,
\* or out of the range they accept.
QueryLimit(limitStr) ==
    IF limitStr # <<>> /\ Atoi(limitStr).ok /\ Atoi(limitStr).n > 0
    THEN Atoi(limitStr).n ELSE DefaultLimit

QueryOffset(offsetStr) ==
    IF offsetStr # <<>> /\ Atoi(offsetStr).ok /\ Atoi(offsetStr).n >= 0
    THEN Atoi(offsetStr).n ELSE 0

\* ORDER BY t.created_at DESC: the ids of S, the task created last first (ids
\* are handed out in the order of creation).
ByCreatedDesc(ts, S) == Reverse(Ascending(S))

\* ORDER BY t.updated_at DESC: the ids of S, the task written last first.
ByUpdatedDesc(ts, S) ==
    LET before(t) == {u \in S : \/ ts[u].updated_at > ts[t].updated_at
                                 \/ (ts[u].updated_at = ts[t].updated_at /\ u > t)}
    IN  [i \in 1..Cardinality(S) |-> CHOOSE t \in S : Cardinality(before(t)) = i - 1]

\* The store refuses a negative OFFSET or LIMIT; it evaluates the offset first.
PageError(limit, offset) ==
    IF offset < 0 THEN "pq: OFFSET must not be negative"
    ELSE IF limit < 0 THEN "pq: LIMIT must not be negative"
    ELSE ""

\* SELECT ... WHERE t.archived = flag ORDER BY ... LIMIT $1 OFFSET $2: the
\* default listing is ordered by created_at, the archived one by updated_at.
SelectPage(ts, flag, limit, offset) ==
    LET S == {t \in DOMAIN ts : ts[t].archived = flag}
        all == IF flag THEN ByUpdatedDesc(ts, S) ELSE ByCreatedDesc(ts, S)
        last == IF offset + limit < Len(all) THEN offset + limit ELSE Len(all)
    IN  IF PageError(limit, offset) # "" \/ offset >= Len(all) THEN <<>>
        ELSE SubSeq(all, offset + 1, last)

ServiceGetTasks_ArchivedToo(ts, limit, offset) ==
    LET err == ValidatePagination(limit, offset)
    IN  IF err # "" THEN [err |-> err, queried |-> FALSE, rows |-> <<>>]
        ELSE [err |-> "", queried |-> TRUE,
              rows |-> Reverse(Ascending(DOMAIN ts))]

\* TaskService.GetTasks
ServiceGetTasks(ts, limit, offset) ==
    LET err == ValidatePagination(limit, offset)
    IN  IF err # "" THEN [err |-> err, queried |-> FALSE, rows |-> <<>>]
        ELSE [err |-> "", queried |-> TRUE, rows |-> SelectPage(ts, FALSE, limit, offset)]

\* TaskArchiveService.GetArchivedTasks
ServiceGetArchivedTasks(ts, limit, offset) ==
    [err |-> PageError(limit, offset), queried |-> TRUE,
     rows |-> SelectPage(ts, TRUE, limit, offset)]

ListingResponse(res) ==
    [code |-> IF res.err # "" THEN StatusInternalServerError ELSE StatusOK,
     error |-> res.err, queried |-> res.queried, rows |-> res.rows]

\* GET /api/tasks
GetTasks(ts, limitStr, offsetStr) ==
    ListingResponse(ServiceGetTasks(ts, QueryLimit(limitStr), QueryOffset(offsetStr)))

\* GET /api/tasks/archived
GetArchivedTasks(ts, limitStr, offsetStr) ==
    ListingResponse(ServiceGetArchivedTasks(ts, QueryLimit(limitStr), QueryOffset(offsetStr)))

(***************************************************************************)
(* The schema and its migrations.  The database schema is the set of the   *)
(* names of its objects; a migration file is the list of its statements,   *)
(* each with the object it creates, its IF NOT EXISTS / OR REPLACE clause   *)
(* and the objects it refers to.                                           *)
(***************************************************************************)
Statement(verb, name, clause, on) ==
    [verb |-> verb, name |-> name, clause |-> clause, on |-> on]

\* migrations/001_init_schema.sql
File001 ==
    << Statement("CREATE TABLE", "users", "IF NOT EXISTS", {}),
       Statement("CREATE TABLE", "tasks", "IF NOT EXISTS", {"users"}),
       Statement("CREATE TABLE", "comments", "IF NOT EXISTS", {"tasks", "users"}),
       Statement("CREATE TABLE", "change_logs", "IF NOT EXISTS", {"tasks", "users"}),
       Statement("CREATE INDEX", "idx_tasks_creator_id", "IF NOT EXISTS", {"tasks"}),
       Statement("CREATE INDEX", "idx_tasks_status", "IF NOT EXISTS", {"tasks"}),
       Statement("CREATE INDEX", "idx_comments_task_id", "IF NOT EXISTS", {"comments"}),
       Statement("CREATE INDEX", "idx_comments_user_id", "IF NOT EXISTS", {"comments"}),
       Statement("CREATE INDEX", "idx_change_logs_task_id", "IF NOT EXISTS", {"change_logs"}),
       Statement("CREATE FUNCTION", "update_updated_at_column", "OR REPLACE", {}),
       Statement("CREATE TRIGGER", "update_users_updated_at", "",
                 {"users", "update_updated_at_column"}),
       Statement("CREATE TRIGGER", "update_tasks_updated_at", "",
                 {"tasks", "update_updated_at_column"}),
       Statement("CREATE TRIGGER", "update_comments_updated_at", "",
                 {"comments", "update_updated_at_column"}) >>

\* migrations/002_add_archived_column.sql
File002 ==
    << Statement("ALTER TABLE ADD COLUMN", "tasks.archived", "IF NOT EXISTS", {"tasks"}),
       Statement("CREATE INDEX", "idx_tasks_archived", "IF NOT EXISTS",
                 {"tasks", "tasks.archived"}) >>

\* filepath.Glob("migrations/*.sql") returns the files in lexical order.
Files == <<File001, File002>>

ErrAlreadyExists == "already exists"
ErrDoesNotExist == "does not exist"

\* One statement on the schema db: a statement on a missing object fails; an
\* object that exists is skipped under IF NOT EXISTS, replaced under OR REPLACE
\* and an error otherwise.
ExecStatement(db, st) ==
    IF ~(st.on \subseteq db) THEN [err |-> ErrDoesNotExist, db |-> db]
    ELSE IF st.name \in db
    THEN [err |-> IF st.clause = "" THEN ErrAlreadyExists ELSE "", db |-> db]
    ELSE [err |-> "", db |-> db \cup {st.name}]

\* d.DB.Exec(string(migrationSQL)): the file is one query string, which the
\* store runs as one transaction, so a failing statement undoes the file.
RECURSIVE ExecFrom(_, _, _, _)
ExecFrom(db, begin, stmts, i) ==
    IF i > Len(stmts) THEN [err |-> "", db |-> db]
    ELSE LET res == ExecStatement(db, stmts[i])
         IN  IF res.err # "" THEN [err |-> res.err, db |-> begin]
             ELSE ExecFrom(res.db, begin, stmts, i + 1)

ExecFile(db, stmts) == ExecFrom(db, db, stmts, 1)

\* The empty database, the database of a deployment that ran the first file
\* only, and the database on which both files have been applied.
Fresh == {}
After001 == ExecFile(Fresh, File001).db
Migrated == ExecFile(After001, File002).db

\* The server process: down, running its migrations (file and statement it is
\* at, the schema before the run and at the start of the file's transaction),
\* serving, or ended by log.Fatalf.
Down ==
    [pc |-> "down", file |-> 0, stmt |-> 0, before |-> Fresh, txn |-> Fresh,
     starts |-> 0, err |-> ""]

\* The server the requests of the pipeline are sent to: started once, on the
\* empty database.
Serving ==
    [pc |-> "serving", file |-> Len(Files), stmt |-> Len(File002), before |-> Fresh,
     txn |-> After001, starts |-> 1, err |-> ""]

(***************************************************************************)
(* The specification of the request pipeline.                              *)
(***************************************************************************)
\* The store after user 1 created task 1 and user 2 commented on it.
Init ==
    /\ tasks = 1 :> [title |-> <<"A">>, description |-> "d", status |-> StatusToDo,
                     creator_id |-> 1, due_date |-> NoDate, archived |-> FALSE,
                     updated_at |-> 1]
    /\ comments = 1 :> [task_id |-> 1, user_id |-> 2, content |-> <<"c">>]
    /\ change_logs =
        << [task_id |-> 1, user_id |-> 1, action |-> "created", details |-> "Created task: A"],
           [task_id |-> 1, user_id |-> 2, action |-> "commented", details |-> "Added a comment"] >>
    /\ seqs = [tasks |-> 2, comments |-> 2]
    /\ reqs = [r \in Reqs |-> IdleReq]
    /\ resp = IdleReq
    /\ arrived = 0
    /\ fmtIn = << >>
    /\ fmtOut = [called |-> FALSE, result |-> ""]
    /\ call = NoCall
    /\ schema = Migrated
    /\ boot = Serving

Next ==
    \E r \in Reqs :
        \/ CreateTask_Insert(r) \/ CreateTask_Log(r)
        \/ UpdateTask_Check(r) \/ UpdateTask_Write(r) \/ UpdateTask_Log(r)
        \/ DeleteTask_Check(r) \/ DeleteTask_Write(r) \/ DeleteTask_Log(r)
        \/ ArchiveTask_Check(r) \/ ArchiveTask_Write(r) \/ ArchiveTask_Log(r)
        \/ UnarchiveTask_Check(r) \/ UnarchiveTask_Write(r) \/ UnarchiveTask_Log(r)
        \/ CreateComment_Check(r) \/ CreateComment_Write(r) \/ CreateComment_Log(r)
        \/ UpdateComment_Check(r) \/ UpdateComment_Write(r) \/ UpdateComment_Log(r)
        \/ DeleteComment_Check(r) \/ DeleteComment_Log(r) \/ DeleteComment_Write(r)
        \/ GetComments_Check(r) \/ GetComments_Select(r)

Spec == Init /\ [][Next]_vars

(***************************************************************************)
(* FormatChangeDetails as a pure function: the input is any list of at     *)
(* most MaxFrags fragments, the one action applies the function to it.     *)
(***************************************************************************)
Fragments == {"changed title to 'B'", "updated description", "changed status to 'Done'"}

RECURSIVE SeqsUpTo(_, _)
SeqsUpTo(S, n) ==
    IF n = 0 THEN {<< >>}
    ELSE LET shorter == SeqsUpTo(S, n - 1)
         IN  shorter \cup {Append(s, x) : s \in shorter, x \in S}

InitFormat ==
    /\ tasks = << >>
    /\ comments = << >>
    /\ change_logs = << >>
    /\ seqs = [tasks |-> 1, comments |-> 1]
    /\ reqs = [r \in Reqs |-> IdleReq]
    /\ resp = IdleReq
    /\ arrived = 0
    /\ fmtIn \in SeqsUpTo(Fragments, MaxFrags)
    /\ fmtOut = [called |-> FALSE, result |-> ""]
    /\ call = NoCall
    /\ schema = Migrated
    /\ boot = Serving

CallFormatChangeDetails ==
    /\ ~fmtOut.called
    /\ fmtOut' = [called |-> TRUE, result |-> FormatChangeDetails(fmtIn)]
    /\ UNCHANGED <<storeVars, migVars, reqs, resp, arrived, fmtIn, call>>

NextFormat == CallFormatChangeDetails

SpecFormat == InitFormat /\ [][NextFormat]_vars

(***************************************************************************)
(* The validators as pure functions: the input is one of the requests      *)
(* below, the one action of each validator applies it.                     *)
(***************************************************************************)
\* Blank and padded strings, a letter outside ASCII, and strings of runes of
\* one, two, three and four bytes around the limit of n bytes.
Strings(n) ==
    {<<>>, <<" ">>, <<" ", "\t", " ">>, <<VerticalTab>>, <<NoBreakSpace, NextLine>>,
     <<IdeographicSpace>>, <<EmSpace, "\n">>,
     <<"A">>, <<" ", "A", " ">>, <<VerticalTab, "A", NoBreakSpace>>,
     <<EmSpace, "A", IdeographicSpace>>, <<EAcute>>, <<EAcute, "A">>,
     Filled(n - 1, "x"), Filled(n, "x"), Filled(n + 1, "x"),
     <<" ">> \o Filled(n - 1, "x"), <<" ">> \o Filled(n, "x"),
     Filled(n \div 2, EAcute), <<"A">> \o Filled(n \div 2, NoBreakSpace) \o <<"A">>,
     Filled(n \div 3, IdeographicSpace) \o <<"A">>,
     <<"A">> \o Filled(n \div 3, IdeographicSpace) \o <<"A">>,
     Filled(n \div 2 + 1, "U+00E8"), Filled(n \div 3 + 1, "U+4E2D"),
     Filled(n \div 4, GrinningFace), Filled(n \div 4 + 1, GrinningFace)}

Titles == Strings(MaxTitleLen)

Statuses == {"", StatusToDo, StatusInProgress, StatusDone, "Bogus", "done", "TODO"}

ValidateCreateTaskCalls ==
    {NewCall("ValidateCreateTask",
             [title |-> t, description |-> "d", status |-> st, due_date |-> NoDate]) :
        t \in Titles, st \in Statuses}

\* Updates of the title, of the status, and of neither.
ValidateUpdateTaskCalls ==
    {NewCall("ValidateUpdateTask", UpdateTaskBody(<<t>>, <<>>, <<>>, NoDate)) : t \in Titles}
    \cup {NewCall("ValidateUpdateTask", UpdateTaskBody(<<>>, <<>>, <<st>>, NoDate)) :
             st \in Statuses}
    \cup {NewCall("ValidateUpdateTask", UpdateTaskBody(<<>>, <<>>, <<>>, NoDate))}

ValidateCommentCalls ==
    {NewCall(fn, [content |-> c]) :
        fn \in {"ValidateCreateComment", "ValidateUpdateComment"},
        c \in Strings(MaxContentLen)}

Limits == {0 - 1, 0, 1, 2, DefaultLimit, MaxLimit - 1, MaxLimit, MaxLimit + 1, 2 * MaxLimit}
Offsets == {0 - 2, 0 - 1, 0, 1, MaxLimit, MaxLimit + 1}

ValidatePaginationCalls ==
    {NewCall("ValidatePagination", [limit |-> l, offset |-> o]) : l \in Limits, o \in Offsets}

InitValidate ==
    /\ tasks = << >>
    /\ comments = << >>
    /\ change_logs = << >>
    /\ seqs = [tasks |-> 1, comments |-> 1]
    /\ reqs = [r \in Reqs |-> IdleReq]
    /\ resp = IdleReq
    /\ arrived = 0
    /\ fmtIn = << >>
    /\ fmtOut = [called |-> FALSE, result |-> ""]
    /\ call \in ValidateCreateTaskCalls \cup ValidateUpdateTaskCalls
                \cup ValidateCommentCalls \cup ValidatePaginationCalls
    /\ schema = Migrated
    /\ boot = Serving

CallValidateCreateTask ==
    /\ call.fn = "ValidateCreateTask" /\ ~call.called
    /\ call' = [call EXCEPT !.called = TRUE, !.out = ValidateCreateTask(call.args)]
    /\ UNCHANGED <<storeVars, migVars, reqs, resp, arrived, fmtIn, fmtOut>>

CallValidatePagination ==
    /\ call.fn = "ValidatePagination" /\ ~call.called
    /\ call' = [call EXCEPT !.called = TRUE,
                            !.out = ValidatePagination(call.args.limit, call.args.offset)]
    /\ UNCHANGED <<storeVars, migVars, reqs, resp, arrived, fmtIn, fmtOut>>

CallValidateUpdateTask ==
    /\ call.fn = "ValidateUpdateTask" /\ ~call.called
    /\ call' = [call EXCEPT !.called = TRUE, !.out = ValidateUpdateTask(call.args)]
    /\ UNCHANGED <<storeVars, migVars, reqs, resp, arrived, fmtIn, fmtOut>>

CallValidateCreateComment ==
    /\ call.fn = "ValidateCreateComment" /\ ~call.called
    /\ call' = [call EXCEPT !.called = TRUE, !.out = ValidateCreateComment(call.args)]
    /\ UNCHANGED <<storeVars, migVars, reqs, resp, arrived, fmtIn, fmtOut>>

CallValidateUpdateComment ==
    /\ call.fn = "ValidateUpdateComment" /\ ~call.called
    /\ call' = [call EXCEPT !.called = TRUE, !.out = ValidateUpdateComment(call.args)]
    /\ UNCHANGED <<storeVars, migVars, reqs, resp, arrived, fmtIn, fmtOut>>

NextValidate ==
    \/ CallValidateCreateTask \/ CallValidateUpdateTask
    \/ CallValidateCreateComment \/ CallValidateUpdateComment
    \/ CallValidatePagination

SpecValidate == InitValidate /\ [][NextValidate]_vars

(***************************************************************************)
(* The two listing handlers as functions of the store and the query        *)
(* parameters: the store is one of the stores below, the one action of     *)
(* each handler answers the request.                                       *)
(***************************************************************************)
ListedTask(user, flag, at) ==
    [title |-> <<"A">>, description |-> "d", status |-> StatusToDo,
     creator_id |-> user, due_date |-> NoDate, archived |-> flag, updated_at |-> at]

\* n tasks in the default listing followed by m archived ones, the archived
\* ones archived from the newest to the oldest.
ListStore(n, m) == [t \in 1..(n + m) |-> ListedTask(1, t > n, 2 * (n + m) + 1 - t)]

\* No task, fewer than a default page, and more than MaxLimit of each kind.
ListStores == {ListStore(0, 0), ListStore(2, 1), ListStore(MaxLimit + 1, MaxLimit + 1)}

\* Absent, around the two ends of the accepted range, negative, not a number,
\* and a number that does not fit an int.
LimitParams ==
    {<<>>, <<"0">>, <<"1">>, <<"5">>, <<"1", "0", "0">>, <<"1", "0", "1">>,
     <<"-", "1">>, <<"a">>, Filled(20, "9")}

OffsetParams == {<<>>, <<"0">>, <<"1">>, <<"-", "1">>, <<"2", "0", "0">>}

ListingCalls ==
    {NewCall(fn, [limit |-> l, offset |-> o]) :
        fn \in {"GetTasks", "GetArchivedTasks"}, l \in LimitParams, o \in OffsetParams}

\* The archive service called with the numbers themselves, the negative ones
\* included.
ServiceCalls ==
    {NewCall("ServiceGetArchivedTasks", [limit |-> l, offset |-> o]) :
        l \in Limits, o \in Offsets}

InitList ==
    /\ tasks \in ListStores
    /\ comments = << >>
    /\ change_logs = << >>
    /\ seqs = [tasks |-> Cardinality(DOMAIN tasks) + 1, comments |-> 1]
    /\ reqs = [r \in Reqs |-> IdleReq]
    /\ resp = IdleReq
    /\ arrived = 0
    /\ fmtIn = << >>
    /\ fmtOut = [called |-> FALSE, result |-> ""]
    /\ call \in ListingCalls \cup ServiceCalls
    /\ schema = Migrated
    /\ boot = Serving

CallGetTasks ==
    /\ call.fn = "GetTasks" /\ ~call.called
    /\ call' = [call EXCEPT !.called = TRUE,
                            !.out = GetTasks(tasks, call.args.limit, call.args.offset)]
    /\ UNCHANGED <<storeVars, migVars, reqs, resp, arrived, fmtIn, fmtOut>>

CallGetArchivedTasks ==
    /\ call.fn = "GetArchivedTasks" /\ ~call.called
    /\ call' = [call EXCEPT !.called = TRUE,
                            !.out = GetArchivedTasks(tasks, call.args.limit, call.args.offset)]
    /\ UNCHANGED <<storeVars, migVars, reqs, resp, arrived, fmtIn, fmtOut>>

CallServiceGetArchivedTasks ==
    /\ call.fn = "ServiceGetArchivedTasks" /\ ~call.called
    /\ call' = [call EXCEPT
                   !.called = TRUE,
                   !.out = ServiceGetArchivedTasks(tasks, call.args.limit, call.args.offset)]
    /\ UNCHANGED <<storeVars, migVars, reqs, resp, arrived, fmtIn, fmtOut>>

NextList == CallGetTasks \/ CallGetArchivedTasks \/ CallServiceGetArchivedTasks

SpecList == InitList /\ [][NextList]_vars

(***************************************************************************)
(* Server starts: main connects and calls RunMigrations, which executes    *)
(* the migration files in order, one statement a step; an error ends the   *)
(* process.                                                                *)
(***************************************************************************)
InitMigrate ==
    /\ tasks = << >>
    /\ comments = << >>
    /\ change_logs = << >>
    /\ seqs = [tasks |-> 1, comments |-> 1]
    /\ reqs = [r \in Reqs |-> IdleReq]
    /\ resp = IdleReq
    /\ arrived = 0
    /\ fmtIn = << >>
    /\ fmtOut = [called |-> FALSE, result |-> ""]
    /\ call = NoCall
    /\ schema \in {Fresh, After001, Migrated}
    /\ boot = Down

\* main: the process starts (again) and enters RunMigrations.
StartServer ==
    /\ boot.pc \in {"down", "fatal"}
    /\ boot.starts < MaxStarts
    /\ boot' = [pc |-> "migrate", file |-> 1, stmt |-> 1, before |-> schema,
                txn |-> schema, starts |-> boot.starts + 1, err |-> ""]
    /\ UNCHANGED <<storeVars, schema, reqs, resp, arrived, fmtIn, fmtOut, call>>

\* The next statement of the file being executed.
RunMigrations ==
    /\ boot.pc = "migrate"
    /\ LET stmts == Files[boot.file]
           res == ExecStatement(schema, stmts[boot.stmt])
       IN  IF res.err # ""
           THEN /\ schema' = boot.txn
                /\ boot' = [boot EXCEPT !.pc = "fatal", !.err = res.err]
           ELSE /\ schema' = res.db
                /\ boot' = IF boot.stmt < Len(stmts)
                           THEN [boot EXCEPT !.stmt = @ + 1]
                           ELSE IF boot.file < Len(Files)
                           THEN [boot EXCEPT !.file = @ + 1, !.stmt = 1, !.txn = res.db]
                           ELSE [boot EXCEPT !.pc = "serving"]
    /\ UNCHANGED <<storeVars, reqs, resp, arrived, fmtIn, fmtOut, call>>

\* The serving process is shut down.
StopServer ==
    /\ boot.pc = "serving"
    /\ boot' = [boot EXCEPT !.pc = "down"]
    /\ UNCHANGED <<storeVars, schema, reqs, resp, arrived, fmtIn, fmtOut, call>>

NextMigrate == StartServer \/ RunMigrations \/ StopServer

SpecMigrate == InitMigrate /\ [][NextMigrate]_vars

(***************************************************************************)
(* Properties.                                                             *)
(***************************************************************************)
OwnedOps == {"UpdateTask", "DeleteTask", "ArchiveTask", "UnarchiveTask"}

\* A request arrives in slot r and takes its first step, which holds the
\* handler's first statement.
Arrives(r) == CanStart(r) /\ arrived' = arrived + 1

\* Request r, in flight, takes a step.
Steps(r) == reqs[r].pc # "idle" /\ reqs'[r] # reqs[r]

\* The request of slot r after its step: still in flight, or the response.
After(r) == IF reqs'[r].pc = "idle" THEN resp' ELSE reqs'[r]

\* P holds of every request in flight and of the response just given.
ForAllSeen(P(_)) == P(resp) /\ \A r \in Reqs : P(reqs[r])

StoreUntouched ==
    tasks' = tasks /\ comments' = comments /\ change_logs' = change_logs

TaskStatuses == {"To Do", "In Progress", "Done"}

\* The title has a character that is not whitespace.
HasVisibleCharacter(title) == \E i \in 1..Len(title) : ~IsSpace(title[i])

\* The body of an update passes field validation: a title that is present has
\* a character that is not whitespace and at most 500 bytes, a status that is
\* present is one of the enum.
PassesFieldValidation(body) ==
    /\ body.title # <<>> =>
          (HasVisibleCharacter(body.title[1]) /\ ByteLen(body.title[1]) <= 500)
    /\ body.status # <<>> => body.status[1] \in TaskStatuses

\* The request was answered 400 with a validation error before any statement
\* was sent to the store, and no row changed.
RefusedByValidation(rec) ==
    /\ rec.pc = "done" /\ rec.code = 400 /\ rec.error # ""
    /\ rec.issued = <<>>
    /\ StoreUntouched

\* What C1 asks of the arriving request rec: NotFound on a missing id, Forbidden
\* for a user who is not the creator, and no row changed in either case.
OwnershipOutcome(rec) ==
    /\ rec.id \notin DOMAIN tasks =>
          rec.pc = "done" /\ rec.code = 404 /\ StoreUntouched
    /\ (rec.id \in DOMAIN tasks /\ tasks[rec.id].creator_id # rec.user) =>
          rec.pc = "done" /\ rec.code = 403 /\ StoreUntouched

\* C1 as stated: update, delete, archive and unarchive answer 404 for a task id
\* that does not exist and 403 for an existing task of another creator, whatever
\* the request carries, and change no row.
C1_AsStated ==
    [][\A r \in Reqs :
          (Arrives(r) /\ After(r).op \in OwnedOps) => OwnershipOutcome(After(r))]_vars

\* C1 (amended): delete, archive and unarchive, and every update whose body passes
\* field validation, answer 404 for a task id that does not exist and 403 for an
\* existing task of another creator, and change no task, comment or change-log
\* row; an update whose body fails field validation (blank or over-long title,
\* status outside the enum) is answered 400 before any lookup, whoever sends it
\* and whether or not the task exists.
C1_OwnershipErrors ==
    [][\A r \in Reqs :
          (Arrives(r) /\ After(r).op \in OwnedOps) =>
              IF After(r).op = "UpdateTask" /\ ~PassesFieldValidation(After(r).body)
              THEN RefusedByValidation(After(r))
              ELSE OwnershipOutcome(After(r))]_vars

C1_Witness ==
    /\ resp.op = "UpdateTask" /\ resp.code = 403
    /\ resp.body.title = << <<"B">> >>
    /\ resp.id \in DOMAIN tasks /\ tasks[resp.id].creator_id # resp.user
    /\ tasks[resp.id].title = <<"A">>

\* C2: under every interleaving, a step that changes or removes a task row is a
\* step of a request whose acting user is the creator of that task.
C2_OnlyCreatorChangesTask ==
    [][\A t \in DOMAIN tasks :
          (t \notin DOMAIN tasks' \/ tasks'[t] # tasks[t]) =>
              \E r \in Reqs : Steps(r) /\ reqs[r].user = tasks[t].creator_id]_vars

\* A request of user 2 on task 1 of user 1 is refused while a request of user 1
\* that has passed its ownership check is about to write task 1.
C2_Witness ==
    /\ resp.op \in OwnedOps /\ resp.user = 2 /\ resp.id = 1 /\ resp.code = 403
    /\ \E r \in Reqs :
          /\ reqs[r].op \in OwnedOps /\ reqs[r].user = 1 /\ reqs[r].id = 1
          /\ reqs[r].pc = "write"
    /\ 1 \in DOMAIN tasks /\ tasks[1].creator_id = 1

\* C3: a successful UpdateTask sets exactly the fields present in the request to
\* the supplied values; absent fields, creator and archived flag keep their
\* values, and no other task is changed, added or removed.
C3_UpdateFrame ==
    [][\A r \in Reqs :
          (/\ reqs[r].op = "UpdateTask" /\ reqs[r].pc = "write"
           /\ Steps(r) /\ After(r).affected = 1) =>
              LET b == reqs[r].body
                  id == reqs[r].id
                  old == tasks[id]
                  new == tasks'[id]
              IN  /\ DOMAIN tasks' = DOMAIN tasks
                  /\ \A t \in DOMAIN tasks \ {id} : tasks'[t] = tasks[t]
                  /\ new.title = (IF b.title # <<>> THEN b.title[1] ELSE old.title)
                  /\ new.description =
                         (IF b.description # <<>> THEN b.description[1] ELSE old.description)
                  /\ new.status = (IF b.status # <<>> THEN b.status[1] ELSE old.status)
                  /\ new.due_date = (IF b.due_date # <<>> THEN b.due_date ELSE old.due_date)
                  /\ new.creator_id = old.creator_id
                  /\ new.archived = old.archived]_vars

C3_Witness ==
    /\ resp.op = "UpdateTask" /\ resp.code = 200 /\ resp.id = 1
    /\ resp.body.title = << <<"B">> >> /\ resp.body.description = <<>>
    /\ resp.body.status = <<>> /\ resp.body.due_date = SomeDate
    /\ 1 \in DOMAIN tasks
    /\ tasks[1].title = <<"B">> /\ tasks[1].description = "d"
    /\ tasks[1].status = StatusToDo /\ tasks[1].due_date = SomeDate

NoFieldPresent(b) ==
    b.title = <<>> /\ b.description = <<>> /\ b.status = <<>> /\ b.due_date = <<>>

NoFieldsAsStated(rec) ==
    (rec.op = "UpdateTask" /\ NoFieldPresent(rec.body)) =>
        rec.error = "no fields to update" /\ rec.issued = <<>>

\* C4 as stated: an UpdateTask request with no field present is rejected with
\* "no fields to update" and has issued no statement to the store.
C4_AsStated == ForAllSeen(NoFieldsAsStated)

\* C4 (amended): an UpdateTask request with no field present is always rejected
\* and changes no row; the one statement it issues is the ownership SELECT, and
\* it is answered "no fields to update" (400) when the task exists and the acting
\* user is its creator, 404 when the task does not exist and 403 otherwise.
C4_NoFieldsRejected ==
    [][\A r \in Reqs :
          (Arrives(r) /\ After(r).op = "UpdateTask" /\ NoFieldPresent(After(r).body)) =>
              LET rec == After(r)
              IN  /\ StoreUntouched
                  /\ rec.pc = "done"
                  /\ rec.issued = <<"SELECT tasks">>
                  /\ rec.affected = -1
                  /\ IF rec.id \notin DOMAIN tasks THEN rec.code = 404
                     ELSE IF tasks[rec.id].creator_id # rec.user THEN rec.code = 403
                     ELSE rec.code = 400 /\ rec.error = "no fields to update"]_vars

C4_Witness ==
    /\ resp.op = "UpdateTask" /\ NoFieldPresent(resp.body)
    /\ resp.code = 400 /\ resp.error = "no fields to update"
    /\ resp.issued = <<"SELECT tasks">>
    /\ resp.id \in DOMAIN tasks /\ tasks[resp.id].creator_id = resp.user

OnlyStatusPresent(b) ==
    /\ b.title = <<>> /\ b.description = <<>> /\ b.due_date = <<>>
    /\ b.status # <<>> /\ b.status[1] \in {"To Do", "In Progress", "Done"}

StatusFragment(b) == "changed status to '" \o b.status[1] \o "'"

StatusLogRow(rec) ==
    [task_id |-> rec.id, user_id |-> rec.user, action |-> "updated",
     details |-> StatusFragment(rec.body)]

\* The write of a status-only update changes only the status of the stored task,
\* and its updated_at timestamp, and returns exactly the one fragment.
StatusOnlyWrite(r) ==
    (/\ reqs[r].op = "UpdateTask" /\ reqs[r].pc = "write"
     /\ OnlyStatusPresent(reqs[r].body) /\ Steps(r) /\ After(r).affected = 1) =>
        /\ tasks' = [tasks EXCEPT ![reqs[r].id].status = reqs[r].body.status[1],
                                  ![reqs[r].id].updated_at = CurrentTimestamp(tasks)]
        /\ After(r).changes = <<StatusFragment(reqs[r].body)>>
        /\ After(r).pc = "log"

StatusOnlyLogStep(r) ==
    /\ reqs[r].op = "UpdateTask" /\ reqs[r].pc = "log"
    /\ OnlyStatusPresent(reqs[r].body) /\ Steps(r)

\* C5 as stated: the status-only update of the owner changes only the status,
\* returns the one fragment, and its "updated" change-log entry is recorded.
C5_AsStated ==
    [][\A r \in Reqs :
          /\ StatusOnlyWrite(r)
          /\ StatusOnlyLogStep(r) =>
                change_logs' = Append(change_logs, StatusLogRow(reqs[r]))]_vars

\* C5 (amended): the status-only update of the owner changes only the status
\* (and the updated_at timestamp of the row) and returns exactly
\* ["changed status to 'v'"]; it then attempts one change-log
\* insert (action "updated", details "changed status to 'v'"), which is recorded
\* when the insert succeeds and leaves the change log as it was when it fails.
C5_StatusOnlyUpdate ==
    [][\A r \in Reqs :
          /\ StatusOnlyWrite(r)
          /\ StatusOnlyLogStep(r) =>
                /\ After(r).pc = "done" /\ After(r).code = 200
                /\ After(r).issued = <<"SELECT tasks", "UPDATE tasks", "INSERT change_logs">>
                /\ IF After(r).logged = "ok"
                   THEN change_logs' = Append(change_logs, StatusLogRow(reqs[r]))
                   ELSE change_logs' = change_logs]_vars

C5_Witness ==
    /\ resp.op = "UpdateTask" /\ resp.code = 200
    /\ OnlyStatusPresent(resp.body) /\ resp.body.status = <<"Done">>
    /\ resp.changes = <<"changed status to 'Done'">>
    /\ resp.logged = "ok"
    /\ change_logs # <<>>
    /\ change_logs[Len(change_logs)] =
          [task_id |-> 1, user_id |-> 1, action |-> "updated",
           details |-> "changed status to 'Done'"]
    /\ 1 \in DOMAIN tasks /\ tasks[1].status = "Done" /\ tasks[1].title = <<"A">>

RECURSIVE CommaJoin(_)
CommaJoin(s) == IF Len(s) = 1 THEN s[1] ELSE s[1] \o ", " \o CommaJoin(Tail(s))

\* The grammar of the joined sentence, by the number of fragments.
JoinedSentence(s) ==
    CASE Len(s) = 0 -> ""
      [] Len(s) = 1 -> s[1]
      [] Len(s) = 2 -> s[1] \o " and " \o s[2]
      [] OTHER -> CommaJoin(SubSeq(s, 1, Len(s) - 1)) \o ", and " \o s[Len(s)]

\* C6: FormatChangeDetails gives "" for no fragment, the fragment itself for one,
\* "A and B" for two, and for three or more the fragments in their order joined
\* by ", " with ", and " before the last; the input list stays as it was.
C6_FormatGrammar ==
    /\ [](fmtOut.called => fmtOut.result = JoinedSentence(fmtIn))
    /\ [][fmtIn' = fmtIn]_vars

C6_Witness ==
    /\ fmtOut.called
    /\ fmtIn = <<"changed title to 'B'", "updated description", "changed status to 'Done'">>
    /\ fmtOut.result = "changed title to 'B', updated description, and changed status to 'Done'"

SuccessStatus(op) == IF op \in {"CreateTask", "CreateComment"} THEN 201 ELSE 200

\* Request r performs its change-log insert.
LogStep(r) == Steps(r) /\ reqs[r].logged = "none" /\ After(r).logged # "none"

\* C7: whether the change-log insert succeeds or fails, the step that performs it
\* changes no task or comment row and the request goes on as it would otherwise:
\* it answers with the success status of its operation (comment delete goes on
\* to its DELETE and answers 200, or 500 when the DELETE itself fails).
C7_LogFailureIgnored ==
    [][\A r \in Reqs :
          /\ LogStep(r) =>
                /\ tasks' = tasks /\ comments' = comments
                /\ IF reqs[r].op = "DeleteComment"
                   THEN After(r).pc = "write"
                   ELSE After(r).pc = "done" /\ After(r).code = SuccessStatus(reqs[r].op)
          /\ (reqs[r].op = "DeleteComment" /\ reqs[r].pc = "write" /\ Steps(r)) =>
                /\ After(r).pc = "done"
                /\ \/ After(r).code = 200 /\ reqs[r].id \notin DOMAIN comments'
                   \/ After(r).code = 500 /\ After(r).affected = -1 /\ comments' = comments]_vars

\* A task create whose change-log insert failed although the task row is there.
C7_Witness ==
    /\ resp.op = "CreateTask" /\ resp.logged = "failed" /\ resp.code = 201
    /\ resp.task_id \in DOMAIN tasks
    /\ \A i \in 1..Len(change_logs) : change_logs[i].task_id # resp.task_id

IssuedBefore(rec, first, second) ==
    \E i, j \in 1..Len(rec.issued) :
        i < j /\ rec.issued[i] = first /\ rec.issued[j] = second

Issued(rec, stmt) == \E i \in 1..Len(rec.issued) : rec.issued[i] = stmt

LogBeforeDelete(rec) ==
    (rec.op = "DeleteTask" /\ Issued(rec, "DELETE tasks")) =>
        IssuedBefore(rec, "INSERT change_logs", "DELETE tasks")

\* C8: in a task delete by its owner, the "deleted" change-log insert is issued
\* before the DELETE of the task row.
C8_LogBeforeDelete == ForAllSeen(LogBeforeDelete)

PrimaryWrite(op) ==
    CASE op = "CreateTask" -> "INSERT tasks"
      [] op \in {"UpdateTask", "ArchiveTask", "UnarchiveTask"} -> "UPDATE tasks"
      [] op = "DeleteTask" -> "DELETE tasks"
      [] op = "CreateComment" -> "INSERT comments"
      [] op = "UpdateComment" -> "UPDATE comments"
      [] op = "DeleteComment" -> "DELETE comments"

\* The log insert of rec came after its primary write, and is persisted only if
\* that write took effect.
LogFollowsWrite(rec) ==
    /\ IssuedBefore(rec, PrimaryWrite(rec.op), "INSERT change_logs")
    /\ rec.logged = "ok" => rec.affected = 1

LogFollowsWriteAlways(rec) == rec.logged # "none" => LogFollowsWrite(rec)

\* C9: every operation attempts its change-log insert only after its primary
\* write, and no entry is persisted for a primary write without effect.
C9_AsStated == ForAllSeen(LogFollowsWriteAlways)

ZeroRowOps ==
    {"UpdateTask", "DeleteTask", "ArchiveTask", "UnarchiveTask", "UpdateComment", "DeleteComment"}

\* C10: a write that affects no row because a racing request removed the row is
\* answered with NotFound (404).
C10_ZeroRowsNotFound ==
    (resp.op \in ZeroRowOps /\ resp.affected = 0) => resp.code = 404

\* Task ids come from a sequence: an id is handed out once, so a task id that is
\* gone stays gone.
TaskIdsNotReused ==
    /\ \A t \in DOMAIN tasks : t < seqs.tasks
    /\ seqs'.tasks >= seqs.tasks
    /\ DOMAIN tasks' \subseteq DOMAIN tasks \cup {seqs.tasks}

\* No row of task id is left, and the statements that read id return none.
Unreachable(id) ==
    /\ \A c \in DOMAIN comments : comments[c].task_id # id
    /\ \A i \in 1..Len(change_logs) : change_logs[i].task_id # id
    /\ GetTask(tasks, id) = [code |-> StatusNotFound, rows |-> <<>>]
    /\ SelectComments(comments, id) = <<>>
    /\ GetTaskLogs(change_logs, id) = [code |-> StatusOK, rows |-> <<>>]

\* A step of a comment listing on a task that is gone answers with no row: 404
\* from the existence check, or the empty list when the check preceded the
\* delete.
ListsNoComment(r) ==
    (/\ Arrives(r) \/ Steps(r)
     /\ After(r).op = "GetComments" /\ After(r).pc = "done"
     /\ After(r).id \notin DOMAIN tasks) =>
        /\ After(r).rows = <<>>
        /\ After(r).code = (IF Arrives(r) THEN StatusNotFound ELSE StatusOK)

\* C11: once a task is deleted, in every later state no comment row and no
\* change-log row references its id, and reading the task, its comments or its
\* logs returns none of them.
C11_CascadeUnreachable ==
    /\ [](\A id \in 1..(seqs.tasks - 1) : id \notin DOMAIN tasks => Unreachable(id))
    /\ [][TaskIdsNotReused /\ \A r \in Reqs : ListsNoComment(r)]_vars

\* Task 1, which had a comment and two log entries, has been deleted by its
\* creator; the "deleted" entry that was attempted afterwards is not there.
C11_Witness ==
    /\ resp.op = "DeleteTask" /\ resp.code = StatusOK /\ resp.id = 1
    /\ resp.affected = 1 /\ resp.logged = "failed"
    /\ 1 \notin DOMAIN tasks /\ Unreachable(1)

Range(s) == {s[i] : i \in 1..Len(s)}

\* The ids the two listings return for a request without query parameters.
DefaultListing(ts) == Range(GetTasks(ts, <<>>, <<>>).rows)
ArchivedListing(ts) == Range(GetArchivedTasks(ts, <<>>, <<>>).rows)

InDefaultOnly(ts, id) == id \in DefaultListing(ts) /\ id \notin ArchivedListing(ts)
InArchivedOnly(ts, id) == id \in ArchivedListing(ts) /\ id \notin DefaultListing(ts)

ListingStep(r) ==
    /\ (/\ reqs[r].op = "ArchiveTask" /\ reqs[r].pc = "write"
        /\ Steps(r) /\ After(r).affected = 1) => InArchivedOnly(tasks', reqs[r].id)
    /\ (/\ reqs[r].op = "UnarchiveTask" /\ reqs[r].pc = "write"
        /\ Steps(r) /\ After(r).affected = 1) => InDefaultOnly(tasks', reqs[r].id)
    /\ (Arrives(r) /\ After(r).op = "CreateTask" /\ After(r).affected = 1) =>
          InDefaultOnly(tasks', After(r).task_id)

\* C12: in every state each existing task is in exactly one of the two listings,
\* the archived one exactly when its flag is set, and no id that is not a task is
\* listed; the write of a successful archive puts the task in the archived
\* listing only, that of a successful unarchive in the default listing only, and
\* a new task starts in the default listing only.
C12_ListingsPartition ==
    /\ [](/\ \A t \in DOMAIN tasks :
                IF tasks[t].archived THEN InArchivedOnly(tasks, t)
                ELSE InDefaultOnly(tasks, t)
          /\ DefaultListing(tasks) \cup ArchivedListing(tasks) \subseteq DOMAIN tasks)
    /\ [][\A r \in Reqs : ListingStep(r)]_vars

\* Task 1 was archived, its "archived" entry logged, and then restored.
C12_Witness ==
    /\ resp.op = "UnarchiveTask" /\ resp.code = StatusOK /\ resp.id = 1
    /\ \E i \in 1..Len(change_logs) :
          change_logs[i].task_id = 1 /\ change_logs[i].action = "archived"
    /\ InDefaultOnly(tasks, 1)

\* C13: a comment create whose task does not exist, at its existence check or,
\* after a concurrent delete, at its insert, is answered NotFound (404) and
\* writes no comment row and no change-log row.
C13_CommentOnMissingTask ==
    [][\A r \in Reqs :
          /\ (Arrives(r) /\ After(r).op = "CreateComment" /\ After(r).id \notin DOMAIN tasks) =>
                /\ After(r).pc = "done" /\ After(r).code = StatusNotFound
                /\ StoreUntouched
          /\ (/\ reqs[r].op = "CreateComment" /\ reqs[r].pc = "write" /\ Steps(r)
              /\ reqs[r].id \notin DOMAIN tasks) =>
                /\ After(r).pc = "done" /\ After(r).code = StatusNotFound
                /\ StoreUntouched]_vars

CommentChanged(c) ==
    c \notin DOMAIN comments' \/ comments'[c].content # comments[c].content

ByAuthor(c) ==
    \E r \in Reqs :
        /\ Steps(r) /\ reqs[r].op \in {"UpdateComment", "DeleteComment"}
        /\ reqs[r].id = c /\ reqs[r].user = comments[c].user_id

\* The DELETE of the parent task, issued by that task's creator, removes c.
ByCascade(c) ==
    \E r \in Reqs :
        /\ Steps(r) /\ reqs[r].op = "DeleteTask" /\ reqs[r].pc = "write"
        /\ reqs[r].id = comments[c].task_id
        /\ reqs[r].user = tasks[comments[c].task_id].creator_id
        /\ c \notin DOMAIN comments'

\* What an arriving comment update or delete gets when it is not the author's.
CommentOwnershipOutcome(rec) ==
    /\ rec.id \notin DOMAIN comments =>
          rec.pc = "done" /\ rec.code = StatusNotFound /\ StoreUntouched
    /\ (rec.id \in DOMAIN comments /\ comments[rec.id].user_id # rec.user) =>
          rec.pc = "done" /\ rec.code = StatusForbidden /\ StoreUntouched

CommentRefusals ==
    \A r \in Reqs :
        (Arrives(r) /\ After(r).op \in {"UpdateComment", "DeleteComment"}) =>
            CommentOwnershipOutcome(After(r))

\* C14 as stated: a comment's content changes or the comment is removed only in a
\* step of a request of the comment's author; update or delete by another user
\* gets 403 and of a nonexistent comment 404, with the store unchanged.
C14_AsStated ==
    [][/\ \A c \in DOMAIN comments : CommentChanged(c) => ByAuthor(c)
       /\ CommentRefusals]_vars

\* C14 (amended): a comment's content changes only through an update by its
\* author, and the comment is removed only through a delete by its author or by
\* the cascade when the creator of the parent task deletes that task; a comment
\* update or delete by any other user (the task's creator included) gets 403
\* and of a nonexistent comment id 404, and neither changes any row.
C14_AuthorOnly ==
    [][/\ \A c \in DOMAIN comments : CommentChanged(c) => (ByAuthor(c) \/ ByCascade(c))
       /\ CommentRefusals]_vars

\* User 1, creator of task 1, is refused the update of user 2's comment on it.
C14_Witness ==
    /\ resp.op = "UpdateComment" /\ resp.code = StatusForbidden
    /\ resp.user = 1 /\ resp.id = 1 /\ resp.body.content = <<"c">>
    /\ 1 \in DOMAIN tasks /\ tasks[1].creator_id = 1
    /\ 1 \in DOMAIN comments /\ comments[1].user_id = 2 /\ comments[1].task_id = 1

ContentError(rec) ==
    IF rec.op = "CreateComment" THEN ValidateCreateComment(rec.body)
    ELSE ValidateUpdateComment(rec.body)

\* A comment request whose content the validator rejects goes no further than
\* its first step: it issues no comment write, and a task that exists and (for
\* an update) a comment of the acting user get it the answer 400.
ContentRejected(rec) ==
    (rec.op \in {"CreateComment", "UpdateComment"} /\ ContentError(rec) # "") =>
        /\ rec.pc \in {"idle", "done"}
        /\ rec.affected = -1
        /\ rec.code \in {StatusBadRequest, StatusNotFound, StatusForbidden}

\* C15: comment create and comment update reject content that is missing, empty,
\* whitespace-only or longer than 5000 characters with a validation error, and
\* then write nothing to the comment table.
C15_ContentValidated == ForAllSeen(ContentRejected)

\* The request is one that the validation of its handler rejects: the binding
\* and the validator of a task create, the validator of a task update, the
\* binding of the content of a comment create or update.
FailsValidation(rec) ==
    CASE rec.op = "CreateTask" ->
            \/ rec.body.title = <<>>
            \/ ValidateCreateTask(ToCreateTaskRequest(rec.body)) # ""
      [] rec.op = "UpdateTask" -> ValidateUpdateTask(rec.body) # ""
      [] rec.op \in {"CreateComment", "UpdateComment"} -> rec.body.content = <<>>
      [] OTHER -> FALSE

ValidatedBeforeStore(rec) == FailsValidation(rec) => rec.issued = <<>>

\* C16: a request that fails validation has sent no statement to the store.
C16_ValidationFirst == ForAllSeen(ValidatedBeforeStore)

Called(fn) == call.fn = fn /\ call.called

AcceptableCreate(req) ==
    /\ HasVisibleCharacter(req.title)
    /\ Len(req.title) <= 500
    /\ req.status \in {"", "To Do", "In Progress", "Done"}

\* C17: ValidateCreateTask returns no error exactly when the title has a
\* non-whitespace character, the title is at most 500 characters long and the
\* status is unset or one of To Do, In Progress, Done; otherwise it returns an
\* error.
C17_ValidateCreateTask ==
    Called("ValidateCreateTask") => ((call.out = "") <=> AcceptableCreate(call.args))

\* C18: ValidatePagination(limit, offset) returns no error exactly when
\* 1 <= limit <= 100 and offset >= 0.
C18_ValidatePagination ==
    Called("ValidatePagination") =>
        ((call.out = "") <=>
            (1 <= call.args.limit /\ call.args.limit <= 100 /\ call.args.offset >= 0))

\* Limit 100 with offset 0 has been accepted.
C18_Witness ==
    /\ Called("ValidatePagination")
    /\ call.args.limit = 100 /\ call.args.offset = 0
    /\ call.out = ""

\* The request asks for a limit outside [1,100] or for a negative offset.
OutOfRange(args) ==
    \/ Atoi(args.limit).ok /\ (Atoi(args.limit).n < 1 \/ Atoi(args.limit).n > 100)
    \/ Atoi(args.offset).ok /\ Atoi(args.offset).n < 0

\* C19: both listings reject a request whose limit is outside [1,100] or whose
\* offset is negative and run no query for it, and neither returns more than
\* 100 tasks.
C19_ListingsBounded ==
    (call.called /\ call.fn \in {"GetTasks", "GetArchivedTasks"}) =>
        /\ OutOfRange(call.args) => (call.out.code # StatusOK /\ ~call.out.queried)
        /\ Len(call.out.rows) <= 100

WellFormed(row) == row.status \in TaskStatuses /\ HasVisibleCharacter(row.title)

\* Storing the request would leave a task with a blank title or a status
\* outside the enum.
WouldBreak(rec) ==
    CASE rec.op = "CreateTask" ->
            \/ ~HasVisibleCharacter(rec.body.title)
            \/ rec.body.status \notin TaskStatuses \cup {""}
      [] rec.op = "UpdateTask" ->
            \/ rec.body.title # <<>> /\ ~HasVisibleCharacter(rec.body.title[1])
            \/ rec.body.status # <<>> /\ rec.body.status[1] \notin TaskStatuses
      [] OTHER -> FALSE

\* C20: in every state each stored task has a status among To Do, In Progress,
\* Done and a title with a non-whitespace character; a create or update that
\* would store anything else is rejected (400) and changes no row.
C20_TasksWellFormed ==
    /\ [](\A t \in DOMAIN tasks : WellFormed(tasks[t]))
    /\ [][\A r \in Reqs :
             (Arrives(r) /\ WouldBreak(After(r))) =>
                 /\ After(r).pc = "done" /\ After(r).code = StatusBadRequest
                 /\ StoreUntouched /\ seqs' = seqs]_vars

\* The creator of task 1 is refused a whitespace-only title, and task 1 keeps
\* its title.
C20_Witness ==
    /\ resp.op = "UpdateTask" /\ resp.code = StatusBadRequest
    /\ resp.user = 1 /\ resp.id = 1 /\ resp.body.title = << <<" ">> >>
    /\ resp.error = "title cannot be empty"
    /\ 1 \in DOMAIN tasks /\ tasks[1].creator_id = 1 /\ tasks[1].title = <<"A">>

RefersTo(row, ids) == row.task_id \in ids

\* The entries of logs whose task is among ids, in their order.
EntriesOf(logs, ids) == SelectSeq(logs, LAMBDA row : RefersTo(row, ids))

\* C21: change-log entries are append-only: a step leaves every entry whose task
\* survives the step in place, in order and with the same task id, user, action
\* and details, adds at most one entry, at the end, and removes exactly the
\* entries of a task that the step deletes.
C21_AppendOnly ==
    [][LET kept == EntriesOf(change_logs, DOMAIN tasks')
       IN  /\ Len(kept) <= Len(change_logs') /\ Len(change_logs') <= Len(kept) + 1
           /\ SubSeq(change_logs', 1, Len(kept)) = kept
           /\ (Len(kept) < Len(change_logs)) =>
                 \E r \in Reqs :
                    /\ Steps(r) /\ reqs[r].op = "DeleteTask" /\ reqs[r].pc = "write"
                    /\ reqs[r].id \in DOMAIN tasks /\ reqs[r].id \notin DOMAIN tasks'
                    /\ change_logs' = kept]_vars

\* Task 2 was created, logged and deleted again; the two entries of task 1 are
\* as they were.
C21_Witness ==
    /\ resp.op = "DeleteTask" /\ resp.id = 2 /\ resp.affected = 1
    /\ 1 \in DOMAIN tasks /\ 2 \notin DOMAIN tasks
    /\ change_logs =
        << [task_id |-> 1, user_id |-> 1, action |-> "created", details |-> "Created task: A"],
           [task_id |-> 1, user_id |-> 2, action |-> "commented", details |-> "Added a comment"] >>

ArchiveOps == {"ArchiveTask", "UnarchiveTask"}

ArchiveLogRow(rec) ==
    [task_id |-> rec.id, user_id |-> rec.user,
     action |-> IF rec.op = "ArchiveTask" THEN "archived" ELSE "unarchived",
     details |-> (IF rec.op = "ArchiveTask" THEN "Archived task: " ELSE "Restored task: ")
                    \o Str(rec.title)]

\* The owner's request is let through to its write whatever the archived flag
\* is, with the title read by the ownership check.
ArchiveAdmitted(r) ==
    (/\ Arrives(r) /\ After(r).op \in ArchiveOps
     /\ After(r).id \in DOMAIN tasks /\ tasks[After(r).id].creator_id = After(r).user) =>
        After(r).pc = "write" /\ After(r).title = tasks[After(r).id].title

ArchiveWrites(r) == reqs[r].op \in ArchiveOps /\ reqs[r].pc = "write" /\ Steps(r)

ArchiveLogs(r) == reqs[r].op \in ArchiveOps /\ reqs[r].pc = "log" /\ Steps(r)

\* The write sets the archived flag of the one row, and its updated_at
\* timestamp, and nothing else.
ArchiveFrame(r) ==
    /\ tasks' = [tasks EXCEPT ![reqs[r].id].archived = (reqs[r].op = "ArchiveTask"),
                              ![reqs[r].id].updated_at = CurrentTimestamp(tasks)]
    /\ After(r).pc = "log" /\ After(r).affected = 1
    /\ comments' = comments /\ change_logs' = change_logs

\* C22 as stated: archive and unarchive by the owner always succeed, set only
\* the archived flag, and each produces exactly one change-log entry with the
\* task title in its details.
C22_AsStated ==
    [][\A r \in Reqs :
          /\ ArchiveAdmitted(r)
          /\ ArchiveWrites(r) => ArchiveFrame(r)
          /\ ArchiveLogs(r) =>
                /\ After(r).code = StatusOK
                /\ change_logs' = Append(change_logs, ArchiveLogRow(reqs[r]))]_vars

\* C22 (amended): archive and unarchive by the owner pass the ownership check
\* whatever the archived flag is; their write, when the task still exists, sets
\* only the archived flag (and the updated_at timestamp of the row), and when a
\* concurrent delete removed the task it
\* changes nothing and is answered 500; after a write that took effect the
\* request attempts one change-log insert (action "archived" / "unarchived",
\* details "Archived task: " / "Restored task: " and the title read by the
\* ownership check), answers 200, and the entry is recorded exactly when that
\* insert succeeds.
C22_ArchiveRestricted ==
    [][\A r \in Reqs :
          /\ ArchiveAdmitted(r)
          /\ ArchiveWrites(r) =>
                IF reqs[r].id \in DOMAIN tasks THEN ArchiveFrame(r)
                ELSE /\ After(r).pc = "done" /\ After(r).code = StatusInternalServerError
                     /\ StoreUntouched
          /\ ArchiveLogs(r) =>
                /\ After(r).pc = "done" /\ After(r).code = StatusOK
                /\ tasks' = tasks /\ comments' = comments
                /\ IF After(r).logged = "ok"
                   THEN change_logs' = Append(change_logs, ArchiveLogRow(reqs[r]))
                   ELSE change_logs' = change_logs]_vars

\* Task 1 has been archived twice by its creator, each time with its entry.
C22_Witness ==
    /\ resp.op = "ArchiveTask" /\ resp.code = StatusOK /\ resp.logged = "ok"
    /\ 1 \in DOMAIN tasks /\ tasks[1].archived /\ tasks[1].status = StatusToDo
    /\ Len(change_logs) = 4
    /\ \A i \in {3, 4} :
          change_logs[i] = [task_id |-> 1, user_id |-> 1, action |-> "archived",
                            details |-> "Archived task: A"]

CommentOps == {"CreateComment", "UpdateComment", "DeleteComment"}

CommentLogRow(rec) ==
    [task_id |-> rec.task_id, user_id |-> rec.user,
     action |-> CASE rec.op = "CreateComment" -> "commented"
                  [] rec.op = "UpdateComment" -> "updated_comment"
                  [] rec.op = "DeleteComment" -> "deleted_comment",
     details |-> CASE rec.op = "CreateComment" -> "Added a comment"
                   [] rec.op = "UpdateComment" -> "Updated a comment"
                   [] rec.op = "DeleteComment" -> "Deleted a comment"]

\* The log step of a comment request appends its one entry, on the parent task
\* of the comment, when the insert succeeds and nothing otherwise.
CommentLogStep(r) ==
    (reqs[r].op \in CommentOps /\ reqs[r].pc = "log" /\ Steps(r)) =>
        /\ reqs[r].op = "CreateComment" => reqs[r].task_id = reqs[r].id
        /\ (reqs[r].op # "CreateComment" /\ reqs[r].id \in DOMAIN comments) =>
              reqs[r].task_id = comments[reqs[r].id].task_id
        /\ IF After(r).logged = "ok"
           THEN change_logs' = Append(change_logs, CommentLogRow(reqs[r]))
           ELSE change_logs' = change_logs

\* A comment request that answered with success made its one attempt; one that
\* answered with an error has no entry.
CommentLogOutcome(rec) ==
    (rec.op \in CommentOps /\ rec.pc = "done") =>
        IF rec.code \in {StatusOK, StatusCreated}
        THEN rec.logged # "none"
        ELSE rec.logged # "ok"

\* C23: every successful comment create, update and delete appends exactly one
\* change-log entry on the comment's parent task, with action "commented",
\* "updated_comment", "deleted_comment", the acting user and a fixed message,
\* provided the log insert succeeds; a failed comment operation appends none.
C23_CommentLogs ==
    /\ [][\A r \in Reqs : CommentLogStep(r)]_vars
    /\ [](CommentLogOutcome(resp))

\* The row a create request with this body and user is to store, the due date
\* apart.
CreatedAsRequested(row, body, user) ==
    /\ row.creator_id = user
    /\ row.archived = FALSE
    /\ row.status = (IF body.status = "" THEN StatusToDo ELSE body.status)
    /\ row.title = body.title
    /\ row.description = body.description

\* The arrival of a create request that inserts: one new row under a fresh id,
\* every other row as it was.
CreateStores(r) ==
    (Arrives(r) /\ After(r).op = "CreateTask" /\ After(r).affected = 1) =>
        LET rec == After(r) IN
        /\ rec.pc = "log"
        /\ rec.task_id \notin DOMAIN tasks
        /\ DOMAIN tasks' = DOMAIN tasks \cup {rec.task_id}
        /\ CreatedAsRequested(tasks'[rec.task_id], rec.body, rec.user)
        /\ \A t \in DOMAIN tasks : tasks'[t] = tasks[t]

\* The log step of a create request: one insert attempt, for the new task.
CreateLogs(r) ==
    (reqs[r].op = "CreateTask" /\ reqs[r].pc = "log" /\ Steps(r)) =>
        LET rec == After(r)
            row == [task_id |-> reqs[r].task_id, user_id |-> reqs[r].user,
                    action |-> "created",
                    details |-> "Created task: " \o Str(reqs[r].body.title)]
        IN  /\ rec.pc = "done" /\ rec.code = StatusCreated
            /\ rec.issued = <<"INSERT tasks", "INSERT change_logs">>
            /\ change_logs' = IF rec.logged = "ok" THEN Append(change_logs, row)
                              ELSE change_logs
            /\ tasks' = tasks

\* C24: a successful task create stores a task whose creator is the acting user,
\* whose archived flag is false, whose status is the requested one or To Do when
\* the request leaves it unset, and whose title and description are the
\* request's; it attempts exactly one change-log entry, action "created", for
\* the new task.
C24_CreateStoresTask ==
    /\ [][\A r \in Reqs : CreateStores(r) /\ CreateLogs(r)]_vars
    /\ []((resp.op = "CreateTask" /\ resp.code = StatusCreated) =>
            (resp.affected = 1 /\ resp.logged # "none"))

\* A create that asked for In Progress answered 201, its task stored with that
\* status and its "created" entry logged.
C24_Witness ==
    /\ resp.op = "CreateTask" /\ resp.code = StatusCreated /\ resp.logged = "ok"
    /\ resp.body.status = StatusInProgress
    /\ resp.task_id \in DOMAIN tasks
    /\ tasks[resp.task_id].status = StatusInProgress
    /\ change_logs[Len(change_logs)].action = "created"
    /\ change_logs[Len(change_logs)].task_id = resp.task_id

OnlyDescriptionOrDueDate(body) ==
    /\ body.title = <<>> /\ body.status = <<>>
    /\ body.description # <<>> \/ body.due_date # <<>>

\* The write of an update that took effect.
UpdateWrote(r) ==
    /\ reqs[r].op = "UpdateTask" /\ reqs[r].pc = "write"
    /\ Steps(r) /\ After(r).affected = 1

Present(field) == IF field # <<>> THEN 1 ELSE 0

\* The fragments the write returns: one for each of title, description and
\* status that is present, in that order, and none for the due date.
FragmentsOf(changes, body) ==
    /\ Len(changes) = Present(body.title) + Present(body.description) + Present(body.status)
    /\ body.title # <<>> =>
          changes[1] = "changed title to '" \o Str(body.title[1]) \o "'"
    /\ body.description # <<>> =>
          changes[1 + Present(body.title)] = "updated description"
    /\ body.status # <<>> =>
          changes[Len(changes)] = "changed status to '" \o body.status[1] \o "'"

\* C25 as stated: an update carrying only description and/or due date returns
\* no fragment and answers without a change-log insert, and fragments are
\* produced for title and status only.
C25_AsStated ==
    [][\A r \in Reqs : UpdateWrote(r) =>
          /\ OnlyDescriptionOrDueDate(reqs[r].body) =>
                (After(r).changes = <<>> /\ After(r).pc = "done")
          /\ Len(After(r).changes) =
                Present(reqs[r].body.title) + Present(reqs[r].body.status)]_vars

\* C25 (amended): a successful update returns one fragment for each of title,
\* description ("updated description") and status that is present, in that
\* order, and none for the due date; it goes on to the "updated" change-log
\* insert exactly when the list is not empty, so only the update that carries
\* the due date alone answers 200 without an insert.
C25_UpdateFragments ==
    [][\A r \in Reqs : UpdateWrote(r) =>
          /\ FragmentsOf(After(r).changes, reqs[r].body)
          /\ change_logs' = change_logs
          /\ IF After(r).changes = <<>>
             THEN /\ After(r).pc = "done" /\ After(r).code = StatusOK
                  /\ After(r).issued = <<"SELECT tasks", "UPDATE tasks">>
                  /\ reqs[r].body.due_date # <<>>
             ELSE After(r).pc = "log"]_vars

\* A description-only update answered 200 and its entry "updated description"
\* is the last of the change log.
C25_Witness ==
    /\ resp.op = "UpdateTask" /\ resp.code = StatusOK /\ resp.logged = "ok"
    /\ OnlyDescriptionOrDueDate(resp.body) /\ resp.body.due_date = <<>>
    /\ resp.changes = <<"updated description">>
    /\ change_logs[Len(change_logs)] =
          [task_id |-> resp.task_id, user_id |-> resp.user, action |-> "updated",
           details |-> "updated description"]

\* The ids the sequence has handed out whose row is gone: the deleted tasks.
Deleted(id) == id \in 1..(seqs.tasks - 1) /\ id \notin DOMAIN tasks

\* The requests that name a task by its id in the path.
OnTaskOps == OwnedOps \cup {"CreateComment", "GetComments"}

\* The read of a deleted task answers NotFound.
DeletedReadsNotFound ==
    \A id \in TaskIds : Deleted(id) => GetTask(tasks, id).code = StatusNotFound

\* A deleted id stays deleted.
DeletedStaysDeleted ==
    \A id \in TaskIds : Deleted(id) => (id \notin DOMAIN tasks' /\ id < seqs'.tasks)

\* The request arriving in slot r names a deleted task.
ArrivesOnDeleted(r) ==
    Arrives(r) /\ After(r).op \in OnTaskOps /\ Deleted(After(r).id)

RefusedNotFound(rec) ==
    rec.pc = "done" /\ rec.code = StatusNotFound /\ StoreUntouched

\* C26 as stated: once a task is deleted, get, update, delete, archive,
\* unarchive, comment create and comment listing on its id answer NotFound for
\* every user, and no task with that id exists again.
C26_AsStated ==
    /\ [][/\ DeletedStaysDeleted
          /\ \A r \in Reqs : ArrivesOnDeleted(r) => RefusedNotFound(After(r))]_vars
    /\ []DeletedReadsNotFound

\* C26 (amended): once a task is deleted no task with its id exists again; get,
\* comment listing, delete, archive, unarchive and comment create arriving on
\* that id answer NotFound for every user, and so does an update whose body
\* passes field validation, while an update whose body fails it (blank or
\* over-long title, status outside the enum) is answered 400 by the validation
\* that precedes the lookup.  None of them changes a row.
C26_DeleteTerminal ==
    /\ [][/\ DeletedStaysDeleted
          /\ \A r \in Reqs : ArrivesOnDeleted(r) =>
                IF After(r).op = "UpdateTask" /\ ~PassesFieldValidation(After(r).body)
                THEN RefusedByValidation(After(r))
                ELSE RefusedNotFound(After(r))]_vars
    /\ []DeletedReadsNotFound

\* Task 1 was deleted and a later archive request on it is answered 404.
C26_Witness ==
    /\ Deleted(1)
    /\ resp.op = "ArchiveTask" /\ resp.id = 1 /\ resp.code = StatusNotFound
    /\ resp.issued = <<"SELECT tasks">>

UpdateFields == {"title", "description", "status", "due_date"}

PresentFields(body) == {f \in UpdateFields : body[f] # <<>>}

\* The value the request carries for a present field: the pointer's target,
\* and for the due date the optional column value itself.
Carried(body, f) == IF f = "due_date" THEN body.due_date ELSE body[f][1]

\* An update whose UPDATE statement took effect.
UpdateApplied(rec) == rec.op = "UpdateTask" /\ rec.affected = 1

\* Both updates took effect on the same task and carry no field in common.
DisjointUpdates(a, b) ==
    /\ UpdateApplied(a) /\ UpdateApplied(b)
    /\ a.id = b.id
    /\ PresentFields(a.body) \cap PresentFields(b.body) = {}

BothTookEffect(a, b) ==
    (DisjointUpdates(a, b) /\ a.id \in DOMAIN tasks) =>
        /\ \A f \in PresentFields(a.body) : tasks[a.id][f] = Carried(a.body, f)
        /\ \A f \in PresentFields(b.body) : tasks[a.id][f] = Carried(b.body, f)

\* The write of an update leaves the fields it does not carry as they were.
CarriesOnlyItsFields(r) ==
    UpdateWrote(r) =>
        \A f \in UpdateFields \ PresentFields(reqs[r].body) :
            tasks'[reqs[r].id][f] = tasks[reqs[r].id][f]

\* C27: two concurrent successful updates of one task that carry disjoint sets
\* of present fields both take effect in every interleaving: the row holds each
\* request's values for its own fields, and neither overwrites a field it did
\* not carry.
C27_NoLostUpdate ==
    /\ [](\A q, r \in Reqs :
            /\ q # r => BothTookEffect(reqs[q], reqs[r])
            /\ BothTookEffect(resp, reqs[r]))
    /\ [][\A r \in Reqs : CarriesOnlyItsFields(r)]_vars

\* A title-only update has answered while a status-only update of the same task,
\* its write done, is about to log; the row has the new title and the new status.
C27_Witness ==
    /\ resp.op = "UpdateTask" /\ resp.code = StatusOK /\ resp.id = 1
    /\ PresentFields(resp.body) = {"title"}
    /\ \E r \in Reqs :
          /\ reqs[r].pc = "log" /\ DisjointUpdates(resp, reqs[r])
          /\ PresentFields(reqs[r].body) = {"status"}
    /\ tasks[1].title = <<"B">> /\ tasks[1].status = StatusDone
    /\ tasks[1].description = "d"

\* The actions the task handlers log.
OwnerActions == {"created", "updated", "archived", "unarchived", "deleted"}

\* C28: in every reachable state, every change-log entry references a task that
\* exists, and every entry whose action is "created", "updated", "archived",
\* "unarchived" or "deleted" has the creator of that task as its acting user.
C28_LogsByCreator ==
    \A i \in 1..Len(change_logs) :
        /\ change_logs[i].task_id \in DOMAIN tasks
        /\ change_logs[i].action \in OwnerActions =>
              change_logs[i].user_id = tasks[change_logs[i].task_id].creator_id

\* The owner restored task 1, and the "unarchived" entry names the owner, while
\* the entry of the comment by user 2 is still in the log.
C28_Witness ==
    /\ resp.op = "UnarchiveTask" /\ resp.code = StatusOK /\ resp.logged = "ok"
    /\ change_logs[Len(change_logs)].action = "unarchived"
    /\ change_logs[Len(change_logs)].user_id = tasks[resp.id].creator_id
    /\ \E i \in 1..Len(change_logs) :
          change_logs[i].user_id # tasks[change_logs[i].task_id].creator_id

\* C29: a task created with a due_date in the request body is stored (and
\* returned) with that due date, and a task created without one has none.
C29_DueDateStored ==
    [][\A r \in Reqs :
          (Arrives(r) /\ After(r).op = "CreateTask" /\ After(r).affected = 1) =>
              tasks'[After(r).task_id].due_date = After(r).body.due_date]_vars

\* C30: RunMigrations is idempotent: a run on a database on which the migration
\* files have already been applied, as at every server start after the first,
\* ends without error and leaves the schema as it was.
C30_MigrationsIdempotent ==
    (boot.pc \in {"migrate", "serving", "fatal"} /\ boot.before = Migrated) =>
        (boot.pc # "fatal" /\ schema = Migrated)

====
